---- MODULE Spec2Model ----
(***************************************************************************)
(* Model of the trending-news-feed ingestion pipeline:                     *)
(*   - Database (src/src/database.py): posts, urls, post_urls tables and   *)
(*     the add_post / add_posts_batch write paths;                          *)
(*   - URLExtractor and DomainFilter (src/src/url_extractor.py,            *)
(*     src/src/domain_filter.py);                                           *)
(*   - FirehoseListener (src/src/firehose.py): per-message worker tasks,   *)
(*     the batch queue, its lock, the periodic flush task, start/stop;     *)
(*   - FeedGenerator (src/main.py): the post callback and cleanup.         *)
(*                                                                         *)
(* All coroutines run on one asyncio event loop: a step of the model is    *)
(* the code a coroutine runs between two suspension points.  A database    *)
(* session reads committed rows when it SELECTs and applies its writes     *)
(* when it commits; between the two, other sessions may commit.            *)
(***************************************************************************)
EXTENDS Integers, Sequences, FiniteSets, TLC

----------------------------------------------------------------------------
(* Bounds of the model *)

\* number of firehose messages received (one worker task per message)
NumWorkers == 2

\* number of add_post calls issued by the sequential storage driver
MaxCalls == 4

(* Program constants, scaled down *)

\* FirehoseListener.__init__ batch_size (default 100)
BatchSize == 2

\* deque(maxlen=10000)
QueueMaxLen == 3

Workers == 1..NumWorkers

----------------------------------------------------------------------------
(* Strings: a host is a sequence of DNS labels, so that                    *)
(* "fakenytimes.com" and "mobile.nytimes.com" differ from "nytimes.com"    *)
(* the way the dotted strings do.                                          *)

\* str.lower() on one label
Lower(label) ==
    CASE label = "WWW" -> "www"
      [] label = "NYTimes" -> "nytimes"
      [] OTHER -> label

LowerHost(host) == [i \in 1..Len(host) |-> Lower(host[i])]

\* host.startswith('www.') and host[4:]
StripWww(host) ==
    IF Len(host) >= 2 /\ host[1] = "www" THEN Tail(host) ELSE host

\* domain.endswith('.' + whitelisted_domain)
EndsWithDot(host, d) ==
    /\ Len(host) > Len(d)
    /\ Len(d) > 0
    /\ SubSeq(host, Len(host) - Len(d) + 1, Len(host)) = d

----------------------------------------------------------------------------
(* URLExtractor *)

TRACKING_PARAMS == {"utm_source", "fbclid", "ref"}

\* A URL string, as urlparse splits it: scheme, netloc, query parameter names.
Url(scheme, netloc, query) == [scheme |-> scheme, netloc |-> netloc, query |-> query]

\* Python's None where a URL string is expected
NoneUrl == Url("None", <<>>, {})

\* Python's None where an embed dictionary is expected
NoneEmbed == [type |-> "None", media_type |-> "None", uri |-> NoneUrl]

normalize_url(url) ==
    IF url = NoneUrl THEN NoneUrl
    ELSE IF url.scheme = "" \/ url.netloc = <<>> THEN NoneUrl
    ELSE Url(IF url.scheme \in {"http", "https"} THEN "https" ELSE url.scheme,
             StripWww(LowerHost(url.netloc)),
             {k \in url.query : Lower(k) \notin TRACKING_PARAMS})

extract_from_embed(embed) ==
    IF embed.type = "app.bsky.embed.external" THEN embed.uri
    ELSE IF embed.type = "app.bsky.embed.recordWithMedia"
              /\ embed.media_type = "app.bsky.embed.external" THEN embed.uri
    ELSE NoneUrl

extract_url(record) ==
    IF record.embed = NoneEmbed THEN NoneUrl
    ELSE normalize_url(extract_from_embed(record.embed))

\* the host without "www." (the port is not modelled); the empty host
\* stands for None
extract_domain(url) == StripWww(LowerHost(url.netloc))

----------------------------------------------------------------------------
(* DomainFilter *)

\* is_allowed without the test of match_subdomains
is_allowed_always_subdomains(domains, match_subdomains, domain) ==
    /\ domain # <<>>
    /\ \E d \in {StripWww(LowerHost(domain))} :
          \/ d \in domains
          \/ \E whitelisted_domain \in domains :
                EndsWithDot(d, whitelisted_domain)

is_allowed(domains, match_subdomains, domain) ==
    /\ domain # <<>>
    /\ \E d \in {StripWww(LowerHost(domain))} :
          \/ d \in domains
          \/ /\ match_subdomains
             /\ \E whitelisted_domain \in domains :
                   EndsWithDot(d, whitelisted_domain)

----------------------------------------------------------------------------
(* Database: the three tables and the AUTOINCREMENT counter of urls.id *)

DbOf(p, u, l, s) == [posts |-> p, urls |-> u, post_urls |-> l, url_seq |-> s]

EmptyDb == DbOf({}, {}, {}, 0)

\* Python's None where a URL row is expected
NoneRow == [id |-> 0, url |-> NoneUrl, domain |-> <<>>, share_count |-> 0]

\* select(URL).where(URL.url == url) ... scalar_one_or_none()
select_url(db, url) ==
    IF \E r \in db.urls : r.url = url
    THEN CHOOSE r \in db.urls : r.url = url
    ELSE NoneRow

\* _get_or_create_url after the SELECT: the UPDATE of share_count with the
\* value computed from the row that was read, or the INSERT of a new row
\* (unique index on urls.url).  Result: the database and the row, or an
\* IntegrityError.
get_or_create_url(db, url_record, url, domain) ==
    IF url_record # NoneRow
    THEN LET row == [url_record EXCEPT !.share_count = url_record.share_count + 1]
         IN IF \E r \in db.urls : r.id = url_record.id
            THEN [err |-> "ok",
                  db |-> [db EXCEPT !.urls =
                             {r \in db.urls : r.id # url_record.id} \cup {row}],
                  row |-> row]
            ELSE [err |-> "StaleDataError", db |-> db, row |-> row]
    ELSE LET row == [id |-> db.url_seq + 1, url |-> url, domain |-> domain,
                     share_count |-> 1]
         IN IF \E r \in db.urls : r.url = url
            THEN [err |-> "IntegrityError", db |-> db, row |-> row]
            ELSE [err |-> "ok",
                  db |-> [db EXCEPT !.urls = db.urls \cup {row},
                                    !.url_seq = db.url_seq + 1],
                  row |-> row]

insert_post_nokey(db, post) ==
    [err |-> "ok", db |-> [db EXCEPT !.posts = db.posts \cup {post}]]

\* INSERT INTO posts (primary key uri)
insert_post(db, post) ==
    IF \E p \in db.posts : p.uri = post.uri
    THEN [err |-> "IntegrityError", db |-> db]
    ELSE [err |-> "ok", db |-> [db EXCEPT !.posts = db.posts \cup {post}]]

insert_post_url_skip(db, link) == [err |-> "ok", db |-> db]

\* INSERT INTO post_urls (primary key (post_uri, url_id))
insert_post_url(db, link) ==
    IF link \in db.post_urls
    THEN [err |-> "IntegrityError", db |-> db]
    ELSE [err |-> "ok", db |-> [db EXCEPT !.post_urls = db.post_urls \cup {link}]]

\* datetime.utcnow(): the runs explored are short, the clock reads the same
\* instant throughout
UtcNow == 2

\* Python's None where a datetime is expected
NoneTime == 0 - 100

\* add_post: if created_at is None: created_at = datetime.utcnow()
created_at_of(item) ==
    IF "created_at" \in DOMAIN item THEN item.created_at ELSE UtcNow

PostRow(item) == [uri |-> item.uri, cid |-> item.cid, repost_count |-> 0,
                  created_at |-> created_at_of(item)]

add_post_write_norollback(db, url_record, item) ==
    LET u == get_or_create_url(db, url_record, item.url, item.domain)
        p == insert_post(u.db, PostRow(item))
        l == insert_post_url(p.db, [post_uri |-> item.uri, url_id |-> u.row.id])
    IN IF u.err = "IntegrityError" THEN [db |-> db, ret |-> "False"]
       ELSE IF u.err # "ok" THEN [db |-> db, ret |-> "raise"]
       ELSE IF p.err # "ok" THEN [db |-> u.db, ret |-> "False"]
       ELSE IF l.err # "ok" THEN [db |-> u.db, ret |-> "False"]
       ELSE [db |-> l.db, ret |-> "True"]

\* The write transaction of add_post, given the row its SELECT returned:
\* upsert the URL, insert the Post and the Link, commit; on IntegrityError
\* roll everything back and return False; other errors roll back and raise.
add_post_write(db, url_record, item) ==
    LET u == get_or_create_url(db, url_record, item.url, item.domain)
        p == insert_post(u.db, PostRow(item))
        l == insert_post_url(p.db, [post_uri |-> item.uri, url_id |-> u.row.id])
    IN IF u.err = "IntegrityError" THEN [db |-> db, ret |-> "False"]
       ELSE IF u.err # "ok" THEN [db |-> db, ret |-> "raise"]
       ELSE IF p.err # "ok" THEN [db |-> db, ret |-> "False"]
       ELSE IF l.err # "ok" THEN [db |-> db, ret |-> "False"]
       ELSE [db |-> l.db, ret |-> "True"]

\* add_post run by one session with no other session in between
add_post(db, item) == add_post_write(db, select_url(db, item.url), item)

\* One element of an add_posts_batch transaction, processed after the
\* elements before it.  st = [tx, pending, added, err]: tx is the database
\* as the open transaction sees it, pending the Post and Link added to the
\* session and not yet flushed, added the running added_count.
\*  - an element that is not a dictionary raises TypeError at post_data['url'];
\*  - the SELECT of _get_or_create_url autoflushes the pending Post and Link
\*    of the previous element: an IntegrityError raised there is caught by
\*    this element's handler, which rolls the session back and continues.
batch_flush_pending(db, tx, pending) ==
    IF pending = <<>> THEN [err |-> "ok", db |-> tx]
    ELSE LET p == insert_post(tx, PostRow(pending[1]))
             l == insert_post_url(p.db, [post_uri |-> pending[1].uri,
                                         url_id |-> pending[2]])
         IN IF p.err # "ok" THEN [err |-> "IntegrityError", db |-> db]
            ELSE IF l.err # "ok" THEN [err |-> "IntegrityError", db |-> db]
            ELSE [err |-> "ok", db |-> l.db]

batch_element(db, st, item) ==
    IF st.err # "ok" THEN st
    ELSE IF item.kind # "dict" THEN [st EXCEPT !.err = "TypeError"]
    ELSE LET f == batch_flush_pending(db, st.tx, st.pending)
         IN IF f.err # "ok"
            THEN [st EXCEPT !.tx = db, !.pending = <<>>]
            ELSE LET u == get_or_create_url(f.db, select_url(f.db, item.url),
                                            item.url, item.domain)
                 IN IF u.err = "IntegrityError"
                    THEN [st EXCEPT !.tx = db, !.pending = <<>>]
                    ELSE IF u.err # "ok" THEN [st EXCEPT !.err = u.err]
                    ELSE [tx |-> u.db, pending |-> <<item, u.row.id>>,
                          added |-> st.added + 1, err |-> "ok"]

RECURSIVE batch_loop(_, _, _)
batch_loop(db, st, batch) ==
    IF batch = <<>> THEN st
    ELSE batch_loop(db, batch_element(db, st, Head(batch)), Tail(batch))

add_posts_batch_norollback(db, batch) ==
    IF batch = <<>> THEN [db |-> db, ret |-> 0, err |-> "ok"]
    ELSE LET st == batch_loop(db, [tx |-> db, pending |-> <<>>, added |-> 0,
                                   err |-> "ok"], batch)
             c == batch_flush_pending(db, st.tx, st.pending)
         IN IF st.err # "ok" THEN [db |-> st.tx, ret |-> 0, err |-> st.err]
            ELSE IF c.err # "ok" THEN [db |-> db, ret |-> 0, err |-> c.err]
            ELSE [db |-> c.db, ret |-> st.added, err |-> "ok"]

\* add_posts_batch: one transaction for the whole list; the commit flushes
\* what is still pending; any error that reaches the outer handler rolls
\* the transaction back and is raised.
add_posts_batch(db, batch) ==
    IF batch = <<>> THEN [db |-> db, ret |-> 0, err |-> "ok"]
    ELSE LET st == batch_loop(db, [tx |-> db, pending |-> <<>>, added |-> 0,
                                   err |-> "ok"], batch)
             c == batch_flush_pending(db, st.tx, st.pending)
         IN IF st.err # "ok" THEN [db |-> db, ret |-> 0, err |-> st.err]
            ELSE IF c.err # "ok" THEN [db |-> db, ret |-> 0, err |-> c.err]
            ELSE [db |-> c.db, ret |-> st.added, err |-> "ok"]

----------------------------------------------------------------------------
(* Firehose input: post-create operations *)

\* The w-th message of the firehose is a commit of the w-th repository that
\* creates one post record: record keys are unique within a repository and
\* the content hash names the block of the record.
RepoOf(w) == <<"did:plc:user", w>>

PathOf(w) == <<"app.bsky.feed.post", w>>

CidOf(w) == <<"bafy", w>>

Repos == {RepoOf(1), RepoOf(2)}

\* f"at://{commit.repo}/{op.path}"
AtUri(repo, path) == [repo |-> repo, path |-> path]

RawA == Url("https", <<"www", "nytimes", "com">>, {"utm_source"})
RawB == Url("http", <<"NYTimes", "com">>, {})
RawFake == Url("https", <<"fakenytimes", "com">>, {})
RawSub == Url("https", <<"mobile", "nytimes", "com">>, {"ref"})
RawBad == Url("", <<>>, {})

External(uri) ==
    [type |-> "app.bsky.embed.external", media_type |-> "None", uri |-> uri]
WithMedia(uri) ==
    [type |-> "app.bsky.embed.recordWithMedia",
     media_type |-> "app.bsky.embed.external", uri |-> uri]
Images ==
    [type |-> "app.bsky.embed.images", media_type |-> "None", uri |-> NoneUrl]

Record(text_http, facet_link, embed) ==
    [text_http |-> text_http, facet_link |-> facet_link,
     entity_link |-> FALSE, embed |-> embed]

Records ==
    { Record(FALSE, TRUE, External(RawA)),
      Record(TRUE, FALSE, External(RawB)),
      Record(FALSE, FALSE, External(RawFake)),
      Record(FALSE, FALSE, WithMedia(RawSub)),
      Record(FALSE, FALSE, External(RawBad)),
      Record(TRUE, FALSE, NoneEmbed),
      Record(FALSE, FALSE, Images) }

NoRecord == Record(FALSE, FALSE, NoneEmbed)

\* FirehoseListener._has_links
has_links(record) ==
    \/ record.facet_link
    \/ record.entity_link
    \/ record.embed.type = "app.bsky.embed.external"
    \/ /\ record.embed.type = "app.bsky.embed.recordWithMedia"
       /\ record.embed.media_type = "app.bsky.embed.external"
    \/ record.text_http

\* The arguments FeedGenerator._handle_post passes to add_post
PostItem(w, record) ==
    CHOOSE item \in
        { [kind |-> "dict",
           uri |-> AtUri(RepoOf(w), PathOf(w)),
           cid |-> CidOf(w),
           url |-> url,
           domain |-> extract_domain(url)] : url \in {extract_url(record)} } : TRUE

\* deque.append with maxlen: a full deque discards its oldest element
deque_append(q, x) ==
    IF Len(q) >= QueueMaxLen THEN Append(Tail(q), x) ELSE Append(q, x)

drain_noclear(q) == [batch |-> q, queue |-> q]

\* batch = list(self._post_batch); self._post_batch.clear()
drain(q) == [batch |-> q, queue |-> <<>>]

----------------------------------------------------------------------------
VARIABLES
    posts, urls, post_urls, url_seq,   \* Database tables
    db_closed,                         \* Database.close() was called
    domains, match_subdomains,         \* DomainFilter
    running,                           \* FirehoseListener._running
    post_batch,                        \* FirehoseListener._post_batch
    batch_lock,                        \* holder of _batch_lock, 0 when free
    flush_task, flush_local,           \* the _periodic_flush task and its batch
    posts_with_whitelisted_links,      \* counter of accepted posts
    pc, msg, url_record, add_ret,      \* per-message worker tasks
    start_pc, start_local,             \* FirehoseListener.start and its finally
    stop_pc, stop_local,               \* FirehoseListener.stop
    cleanup_pc,                        \* FeedGenerator.cleanup
    handed,                            \* times each enqueued item was handed
                                       \* to add_posts_batch
    ncalls, call, ret, sightings,      \* sequential storage driver
    errors, posts_processed, outcome,  \* FirehoseListener._errors,
                                       \* _posts_processed, the last message
    batch_arg, batch_ret,              \* the list a caller passes to
                                       \* add_posts_batch and what it gets
    sess,                              \* storage calls running concurrently,
                                       \* each in its own database session
    reposted,                          \* per post URI, the number of
                                       \* increment_repost_count calls that
                                       \* returned True
    reposts_tracked,                   \* FirehoseListener._reposts_tracked
    op,                                \* the last storage operation of the
                                       \* maintenance driver and its result
    observed,                          \* per post URI, the repost_count last
                                       \* read from storage for it
    sweep,                             \* a cleanup_orphaned_urls call running
                                       \* in its own database session
    resp,                              \* the last get_feed_skeleton call and
                                       \* its response
    walk,                              \* the pages a client got by following
                                       \* the cursors from the first page
    ranking,                           \* the last rank_posts call and the
                                       \* list it returned
    config,                            \* RankingEngine.config
    load,                              \* the last reload_config call
    asked,                             \* the last is_allowed call and its
                                       \* answer
    norm,                              \* the last normalize_url call, its
                                       \* result and the result normalized
    http,                              \* the last getFeedSkeleton request
                                       \* and its response
    ranking_engine                     \* the server's global ranking_engine

dbvars == <<posts, urls, post_urls, url_seq>>
filtervars == <<domains, match_subdomains>>
queuevars == <<post_batch, batch_lock, handed>>
flushvars == <<flush_task, flush_local>>
workervars == <<pc, msg, url_record, add_ret, posts_with_whitelisted_links>>
lifevars == <<running, start_pc, start_local, stop_pc, stop_local, cleanup_pc,
              db_closed>>
msgvars == <<errors, posts_processed, outcome>>
batchvars == <<batch_arg, batch_ret>>
maintvars == <<reposts_tracked, op, observed, sweep>>
feedvars == <<resp, walk, ranking>>
cfgvars == <<config, load, asked, norm, http, ranking_engine>>
drvvars == <<ncalls, call, ret, sightings, errors, posts_processed, outcome,
             batch_arg, batch_ret, sess, reposted, reposts_tracked, op, observed,
          sweep,
          resp, walk, ranking, config, load, asked, norm, http,
          ranking_engine>>
vars == <<posts, urls, post_urls, url_seq, db_closed, domains, match_subdomains,
          running, post_batch, batch_lock, flush_task, flush_local,
          posts_with_whitelisted_links, pc, msg, url_record, add_ret,
          start_pc, start_local, stop_pc, stop_local, cleanup_pc, handed,
          ncalls, call, ret, sightings, errors, posts_processed, outcome,
          batch_arg, batch_ret, sess, reposted, reposts_tracked, op, observed,
          sweep,
          resp, walk, ranking, config, load, asked, norm, http,
          ranking_engine>>

Db == DbOf(posts, urls, post_urls, url_seq)

SetDb(db) ==
    /\ posts' = db.posts
    /\ urls' = db.urls
    /\ post_urls' = db.post_urls
    /\ url_seq' = db.url_seq

----------------------------------------------------------------------------
(* Sequential storage driver: add_post calls issued one after the other,  *)
(* each awaited before the next, on a freshly initialized database.        *)

\* number of storage calls that run concurrently
NumSessions == 3

Sessions == 1..NumSessions

\* Python's None where a Post row is expected
NonePost == [uri |-> AtUri(RepoOf(0), PathOf(0)), cid |-> CidOf(0),
             repost_count |-> 0, created_at |-> NoneTime]

DrvUrls == {normalize_url(RawA), normalize_url(RawSub)}

DrvItems ==
    { [kind |-> "dict", uri |-> AtUri(r, path), cid |-> c, url |-> u,
       domain |-> extract_domain(u)] :
        r \in Repos, path \in {PathOf(1), PathOf(2)},
        c \in {CidOf(1), CidOf(2)}, u \in DrvUrls }

\* the URIs of the posts the drivers add
DrvUris == {i.uri : i \in DrvItems}

NoCall == [kind |-> "None", uri |-> AtUri(RepoOf(0), PathOf(0)), cid |-> CidOf(0),
           url |-> NoneUrl, domain |-> <<>>]

\* no storage operation yet
NoOp == [kind |-> "none", uri |-> AtUri(RepoOf(0), PathOf(0)),
         start |-> NoneTime, end |-> NoneTime, ret |-> "none", n |-> 0]

\* Python's None where a cursor string is expected
NoCursor == [kind |-> "None", b64 |-> FALSE, text |-> <<>>]

\* no get_feed_skeleton call since the last write
NoResp == [limit |-> 0, arg |-> NoCursor, err |-> "none", feed |-> <<>>,
           cursor |-> NoCursor, called |-> FALSE]

\* no pagination run since the last write
NoWalk == [limit |-> 0, err |-> "none", feed |-> <<>>, pages |-> 0]

\* RankingConfig(): the defaults of the constructor
DefaultConfig ==
    [max_age_hours |-> 1, min_share_count |-> 1, min_repost_count |-> 0,
     results_limit |-> 50, max_posts_per_url |-> 0 - 1]

\* no reload_config call yet
NoLoad == [target |-> "none", kind |-> "none", err |-> "none",
           domains |-> {}, match_subdomains |-> TRUE, config |-> DefaultConfig]

\* no is_allowed call since the whitelist was loaded
NoAsk == [called |-> FALSE, domain |-> <<>>, ret |-> FALSE]

\* no rank_posts call since the last write
NoRanked == [called |-> FALSE, max |-> 0, err |-> "none", posts |-> <<>>]

\* no normalize_url call yet
NoNorm == [called |-> FALSE, url |-> NoneUrl, once |-> NoneUrl, twice |-> NoneUrl]

\* no getFeedSkeleton request yet
NoHttp == [called |-> FALSE, feed |-> <<>>, cursor |-> NoCursor, limit |-> 0,
           status |-> 0]

\* no cleanup_orphaned_urls call running
NoSweep == [pc |-> "idle", ids |-> {}, n |-> 0]

\* a session that has not started
NoSess == [pc |-> "idle", op |-> "none", item |-> NoCall, row |-> NoneRow,
           post |-> NonePost, ret |-> "none"]

Init ==
    /\ posts = {} /\ urls = {} /\ post_urls = {} /\ url_seq = 0
    /\ db_closed = FALSE
    /\ domains = {<<"nytimes", "com">>}
    /\ match_subdomains \in BOOLEAN
    /\ running = FALSE
    /\ post_batch = <<>>
    /\ batch_lock = 0
    /\ flush_task = "none" /\ flush_local = <<>>
    /\ posts_with_whitelisted_links = 0
    /\ pc = [w \in Workers |-> "idle"]
    /\ msg = [w \in Workers |-> NoRecord]
    /\ url_record = [w \in Workers |-> NoneRow]
    /\ add_ret = [w \in Workers |-> "none"]
    /\ start_pc = "init" /\ start_local = <<>>
    /\ stop_pc = "idle" /\ stop_local = <<>>
    /\ cleanup_pc = "idle"
    /\ handed = [w \in Workers |-> 0]
    /\ ncalls = 0 /\ call = NoCall /\ ret = "none"
    /\ sightings = [u \in DrvUrls |-> 0]
    /\ errors = 0 /\ posts_processed = 0
    /\ outcome = [kind |-> "none", escaped |-> "none"]
    /\ batch_arg = <<>> /\ batch_ret = [ret |-> 0, err |-> "none"]
    /\ sess = [s \in Sessions |-> NoSess]
    /\ reposted = [u \in DrvUris |-> 0]
    /\ reposts_tracked = 0
    /\ op = NoOp
    /\ observed = [u \in DrvUris |-> 0]
    /\ sweep = NoSweep
    /\ resp = NoResp
    /\ walk = NoWalk
    /\ ranking = NoRanked
    /\ config = DefaultConfig
    /\ load = NoLoad
    /\ asked = NoAsk
    /\ norm = NoNorm
    /\ http = NoHttp
    /\ ranking_engine = "None"

pipevars == <<db_closed, domains, match_subdomains, running, post_batch,
              batch_lock, flush_task, flush_local, posts_with_whitelisted_links,
              pc, msg, url_record, add_ret, start_pc, start_local, stop_pc,
              stop_local, cleanup_pc, handed>>

\* await db.add_post(**item)
DbAddPost(item) ==
    /\ ncalls < MaxCalls
    /\ LET r == add_post(Db, item)
       IN /\ SetDb(r.db)
          /\ ret' = r.ret
          /\ sightings' = IF r.ret = "True"
                          THEN [sightings EXCEPT ![item.url] = @ + 1]
                          ELSE sightings
    /\ call' = item
    /\ ncalls' = ncalls + 1
    /\ UNCHANGED <<pipevars, msgvars, batchvars, sess, reposted, maintvars, feedvars, cfgvars>>

NextDB == \E item \in DrvItems : DbAddPost(item)

SpecDB == Init /\ [][NextDB]_vars

----------------------------------------------------------------------------
(* The ingestion pipeline *)

Bump(h, batch) ==
    [w \in Workers |->
        h[w] + Cardinality({i \in 1..Len(batch) : batch[i].src = w})]

\* What a caller of _flush_batch meets: the lock is taken, the queue is
\* empty, or the queue is drained into a batch.
flush_batch_entry ==
    IF batch_lock # 0 THEN "lockwait"
    ELSE IF post_batch = <<>> THEN "empty"
    ELSE "drained"

\* `while self._running` of _periodic_flush after one round
flush_loop == IF running THEN "sleep" ELSE "ended"

\* flush_task.cancel(); await flush_task: CancelledError is raised at the
\* await the task is suspended on (the sleep, the lock or add_posts_batch)
\* and _periodic_flush breaks out of its loop.
cancel_flush_task ==
    /\ flush_task' = IF flush_task = "none" THEN "none" ELSE "ended"
    /\ flush_local' = <<>>

\* FirehoseListener.start up to `await self.client.start(...)`
Start ==
    /\ start_pc = "init"
    /\ start_pc' = "listening"
    /\ running' = TRUE
    /\ flush_task' = "sleep"
    /\ UNCHANGED <<dbvars, filtervars, queuevars, flush_local, workervars,
                   start_local, stop_pc, stop_local, cleanup_pc, db_closed,
                   drvvars>>

\* on_message_handler: the client delivers the next message
OnMessage(w, m) ==
    /\ start_pc = "listening"
    /\ pc[w] = "idle"
    /\ \A v \in Workers : v < w => pc[v] # "idle"
    /\ IF running
       THEN /\ pc' = [pc EXCEPT ![w] = "spawned"]
            /\ msg' = [msg EXCEPT ![w] = m]
       ELSE /\ pc' = [pc EXCEPT ![w] = "done"]
            /\ msg' = msg
    /\ UNCHANGED <<dbvars, filtervars, queuevars, flushvars, url_record,
                   add_ret, posts_with_whitelisted_links, lifevars, drvvars>>

\* FeedGenerator._handle_post up to the add_post call: True when the record
\* has a URL whose domain the filter allows
callback_accepts_nofilter(record) ==
    \E url \in {extract_url(record)} :
        /\ url # NoneUrl
        /\ \E domain \in {extract_domain(url)} : domain # <<>>

callback_accepts(record) ==
    \E url \in {extract_url(record)} :
        /\ url # NoneUrl
        /\ \E domain \in {extract_domain(url)} :
              /\ domain # <<>>
              /\ is_allowed(domains, match_subdomains, domain)

\* The worker task runs _process_message, FirehoseListener._handle_post and
\* FeedGenerator._handle_post up to the SELECT of add_post.
WorkerStart(w) ==
    /\ pc[w] = "spawned"
    /\ IF has_links(msg[w]) /\ callback_accepts(msg[w])
       THEN /\ pc' = [pc EXCEPT ![w] = "selected"]
            /\ \E url \in {extract_url(msg[w])} :
                  url_record' = [url_record EXCEPT ![w] = select_url(Db, url)]
            /\ msg' = msg
       ELSE /\ pc' = [pc EXCEPT ![w] = "done"]
            /\ url_record' = url_record
            /\ msg' = [msg EXCEPT ![w] = NoRecord]
    /\ UNCHANGED <<dbvars, filtervars, queuevars, flushvars, add_ret,
                   posts_with_whitelisted_links, lifevars, drvvars>>

\* The write transaction of the worker's add_post commits or rolls back.
WorkerWrite(w) ==
    /\ pc[w] = "selected"
    /\ \E item \in {PostItem(w, msg[w])} :
         \E r \in {add_post_write(Db, url_record[w], item)} :
            /\ SetDb(r.db)
            /\ add_ret' = [add_ret EXCEPT ![w] = r.ret]
    /\ pc' = [pc EXCEPT ![w] = "returned"]
    /\ url_record' = [url_record EXCEPT ![w] = NoneRow]
    /\ msg' = [msg EXCEPT ![w] = NoRecord]
    /\ UNCHANGED <<filtervars, queuevars, flushvars,
                   posts_with_whitelisted_links, lifevars, drvvars>>

\* add_post has returned: FeedGenerator._handle_post returns True (False if
\* add_post raised) and FirehoseListener._handle_post appends what it got
\* under the lock; when the queue has reached batch_size it awaits
\* _flush_batch while holding the lock, which _flush_batch waits for.
WorkerEnqueue(w) ==
    /\ pc[w] = "returned"
    /\ add_ret' = [add_ret EXCEPT ![w] = "none"]
    /\ IF add_ret[w] = "raise"
       THEN /\ pc' = [pc EXCEPT ![w] = "done"]
            /\ UNCHANGED <<post_batch, batch_lock, posts_with_whitelisted_links>>
       ELSE /\ posts_with_whitelisted_links' = posts_with_whitelisted_links + 1
            /\ IF batch_lock # 0
               THEN /\ pc' = [pc EXCEPT ![w] = "lockwait"]
                    /\ UNCHANGED <<post_batch, batch_lock>>
               ELSE /\ post_batch' = deque_append(post_batch,
                                         [kind |-> "bool", src |-> w])
                    /\ IF Len(post_batch') >= BatchSize
                       THEN /\ pc' = [pc EXCEPT ![w] = "size_flush"]
                            /\ batch_lock' = w
                       ELSE /\ pc' = [pc EXCEPT ![w] = "done"]
                            /\ batch_lock' = 0
    /\ UNCHANGED <<dbvars, filtervars, handed, flushvars, msg, url_record,
                   lifevars, drvvars>>

\* _periodic_flush: the sleep is over and _flush_batch runs up to the
\* add_posts_batch call
FlushTick ==
    /\ flush_task = "sleep"
    /\ LET e == flush_batch_entry
           d == drain(post_batch)
       IN CASE e = "lockwait" ->
                 /\ flush_task' = "lockwait"
                 /\ UNCHANGED <<post_batch, flush_local, handed>>
            [] e = "empty" ->
                 /\ flush_task' = flush_loop
                 /\ UNCHANGED <<post_batch, flush_local, handed>>
            [] e = "drained" ->
                 /\ flush_task' = "call"
                 /\ flush_local' = d.batch
                 /\ post_batch' = d.queue
                 /\ handed' = Bump(handed, d.batch)
    /\ UNCHANGED <<dbvars, filtervars, batch_lock, workervars, lifevars, drvvars>>

\* add_posts_batch called by the periodic flush returns or raises (the
\* error is logged and the batch is dropped)
FlushCall ==
    /\ flush_task = "call"
    /\ SetDb(add_posts_batch(Db, flush_local).db)
    /\ flush_local' = <<>>
    /\ flush_task' = flush_loop
    /\ UNCHANGED <<filtervars, queuevars, workervars, lifevars, drvvars>>

\* client.start ends (the connection fails or the task is cancelled): the
\* finally block of start clears the flag and cancels the flush task
ClientEnds ==
    /\ start_pc = "listening"
    /\ running' = FALSE
    /\ cancel_flush_task
    /\ start_pc' = "final_flush"
    /\ UNCHANGED <<dbvars, filtervars, queuevars, workervars, start_local,
                   stop_pc, stop_local, cleanup_pc, db_closed, drvvars>>

\* the final _flush_batch of start's finally block
StartFinalFlush ==
    /\ start_pc = "final_flush"
    /\ LET e == flush_batch_entry
           d == drain(post_batch)
       IN CASE e = "lockwait" ->
                 /\ start_pc' = "lockwait"
                 /\ UNCHANGED <<post_batch, start_local, handed>>
            [] e = "empty" ->
                 /\ start_pc' = "done"
                 /\ UNCHANGED <<post_batch, start_local, handed>>
            [] e = "drained" ->
                 /\ start_pc' = "call"
                 /\ start_local' = d.batch
                 /\ post_batch' = d.queue
                 /\ handed' = Bump(handed, d.batch)
    /\ UNCHANGED <<dbvars, filtervars, batch_lock, flushvars, workervars,
                   running, stop_pc, stop_local, cleanup_pc, db_closed, drvvars>>

StartFinalCall ==
    /\ start_pc = "call"
    /\ SetDb(add_posts_batch(Db, start_local).db)
    /\ start_local' = <<>>
    /\ start_pc' = "done"
    /\ UNCHANGED <<filtervars, queuevars, flushvars, workervars, running,
                   stop_pc, stop_local, cleanup_pc, db_closed, drvvars>>

\* FeedGenerator.cleanup, called from the finally block of run_firehose or
\* run_both: when start has returned the listener is not running and the
\* database is closed at once; when the listener is still running (run_both
\* after the server failed) stop() is awaited first.
Cleanup ==
    /\ cleanup_pc = "idle"
    /\ start_pc \in {"listening", "done"}
    /\ IF running
       THEN /\ cleanup_pc' = "stopping"
            /\ running' = FALSE
            /\ cancel_flush_task
            /\ stop_pc' = "final_flush"
            /\ db_closed' = db_closed
       ELSE /\ cleanup_pc' = "done"
            /\ db_closed' = TRUE
            /\ UNCHANGED <<running, flushvars, stop_pc>>
    /\ UNCHANGED <<dbvars, filtervars, queuevars, workervars, start_pc,
                   start_local, stop_local, drvvars>>

\* the final _flush_batch of stop
StopFinalFlush ==
    /\ stop_pc = "final_flush"
    /\ LET e == flush_batch_entry
           d == drain(post_batch)
       IN CASE e = "lockwait" ->
                 /\ stop_pc' = "lockwait"
                 /\ UNCHANGED <<post_batch, stop_local, handed>>
            [] e = "empty" ->
                 /\ stop_pc' = "sleep"
                 /\ UNCHANGED <<post_batch, stop_local, handed>>
            [] e = "drained" ->
                 /\ stop_pc' = "call"
                 /\ stop_local' = d.batch
                 /\ post_batch' = d.queue
                 /\ handed' = Bump(handed, d.batch)
    /\ UNCHANGED <<dbvars, filtervars, batch_lock, flushvars, workervars,
                   running, start_pc, start_local, cleanup_pc, db_closed, drvvars>>

StopFinalCall ==
    /\ stop_pc = "call"
    /\ SetDb(add_posts_batch(Db, stop_local).db)
    /\ stop_local' = <<>>
    /\ stop_pc' = "sleep"
    /\ UNCHANGED <<filtervars, queuevars, flushvars, workervars, running,
                   start_pc, start_local, cleanup_pc, db_closed, drvvars>>

\* asyncio.sleep(1) of stop is over: stop returns and cleanup closes the
\* database
StopReturn ==
    /\ stop_pc = "sleep"
    /\ stop_pc' = "done"
    /\ cleanup_pc' = "done"
    /\ db_closed' = TRUE
    /\ UNCHANGED <<dbvars, filtervars, queuevars, flushvars, workervars,
                   running, start_pc, start_local, stop_local, drvvars>>

Next ==
    \/ Start
    \/ \E w \in Workers, m \in Records : OnMessage(w, m)
    \/ \E w \in Workers : WorkerStart(w)
    \/ \E w \in Workers : WorkerWrite(w)
    \/ \E w \in Workers : WorkerEnqueue(w)
    \/ FlushTick
    \/ FlushCall
    \/ ClientEnds
    \/ StartFinalFlush
    \/ StartFinalCall
    \/ Cleanup
    \/ StopFinalFlush
    \/ StopFinalCall
    \/ StopReturn

Spec == Init /\ [][Next]_vars

\* The event loop runs every task that is ready, sleeps end and storage
\* calls return; the arrival of messages, the end of the connection and the
\* shutdown of the program are left to the environment.
FairSpec ==
    /\ Spec
    /\ WF_vars(Start)
    /\ \A w \in Workers :
          WF_vars(WorkerStart(w) \/ WorkerWrite(w) \/ WorkerEnqueue(w))
    /\ WF_vars(FlushTick)
    /\ WF_vars(FlushCall)
    /\ WF_vars(StartFinalFlush \/ StartFinalCall)
    /\ WF_vars(StopFinalFlush \/ StopFinalCall \/ StopReturn)

----------------------------------------------------------------------------
\* C1: for any sequence of add_post calls there is at most one Post row per
\* URI: a call for a URI that is not stored returns True, a call for a URI
\* that is already stored returns False and leaves the Post, URL and Link
\* rows as they were.
C1_AddPostOncePerUri ==
    [][ncalls' = ncalls + 1 =>
        /\ \A p, q \in posts' : p.uri = q.uri => p = q
        /\ IF \E p \in posts : p.uri = call'.uri
           THEN ret' = "False" /\ posts' = posts /\ urls' = urls
                /\ post_urls' = post_urls
           ELSE ret' = "True" /\ \E p \in posts' : p.uri = call'.uri
                                                   /\ p.cid = call'.cid]_vars

\* a second add_post for a stored URI, with another cid, was rejected
C1_Witness ==
    /\ ret = "False"
    /\ \E p \in posts : p.uri = call.uri /\ p.cid # call.cid

ShareCount(url) ==
    IF \E r \in urls : r.url = url
    THEN (CHOOSE r \in urls : r.url = url).share_count
    ELSE 0

\* C2: with no deletions, each URL's share_count equals the number of
\* add_post calls for that URL that returned True (calls that return False
\* change no share_count).
C2_ShareCountCountsSightings ==
    /\ \A u \in DrvUrls : ShareCount(u) = sightings[u]
    /\ \A r \in urls : r.url \in DrvUrls
    /\ \A r1, r2 \in urls : r1.url = r2.url => r1 = r2

\* a URL shared by two accepted posts, after a rejected repeated call
C2_Witness ==
    /\ \E u \in DrvUrls : sightings[u] = 2 /\ ShareCount(u) = 2
    /\ ret = "False"

----------------------------------------------------------------------------
(* Claims about the pipeline *)

InQueue(w) == \E i \in 1..Len(post_batch) : post_batch[i].src = w

Settled == \A w \in Workers : pc[w] \in {"idle", "done"}

\* every accepted item has left the queue and no add_posts_batch call is
\* pending
Flushed ==
    /\ Settled
    /\ post_batch = <<>>
    /\ flush_task # "call" /\ start_pc # "call" /\ stop_pc # "call"

LinksOf(url_id) == {l \in post_urls : l.url_id = url_id}

\* C3: once the writer has flushed, storage holds exactly one Post and one
\* Link per accepted post (the posts come from different repositories) and
\* each URL's share_count equals the number of accepted posts that carry it.
C3_EachAcceptedPostCountedOnce ==
    Flushed =>
        /\ Cardinality(posts) = posts_with_whitelisted_links
        /\ Cardinality(post_urls) = posts_with_whitelisted_links
        /\ \A p \in posts :
              Cardinality({l \in post_urls : l.post_uri = p.uri}) = 1
        /\ \A r \in urls : r.share_count = Cardinality(LinksOf(r.id))

\* C4: a Post row is only ever created by a step of the batch writer that
\* completes an add_posts_batch call (periodic, final flush of start or of
\* stop); handling a post-create writes nothing to storage.
C4_PostsOnlyWrittenByFlush ==
    [][posts' # posts =>
          \/ flush_task = "call" /\ flush_task' # "call"
          \/ start_pc = "call" /\ start_pc' # "call"
          \/ stop_pc = "call" /\ stop_pc' # "call"]_vars

ExtractedUrls == {extract_url(r) : r \in Records} \ {NoneUrl}

\* C5: every persisted Post is linked to a URL that was extracted from a
\* record and whose host the domain filter allows.
C5_PersistedPostsPassedFilter ==
    \A p \in posts :
        \E l \in post_urls, r \in urls :
            /\ l.post_uri = p.uri
            /\ l.url_id = r.id
            /\ r.url \in ExtractedUrls
            /\ r.domain = extract_domain(r.url)
            /\ is_allowed(domains, match_subdomains, r.domain)

\* both messages were handled while the listener ran: one post was
\* persisted, the other was turned down before storage
C5_Witness ==
    /\ running
    /\ \A w \in Workers : pc[w] = "done"
    /\ Cardinality(posts) = 1
    /\ posts_with_whitelisted_links = 1

\* C6: when an append makes the queue reach batch_size, the flush on the
\* append path completes: the worker's item is handed to add_posts_batch,
\* the lock is released and the worker returns.
C6_SizeTriggeredFlushCompletes ==
    \A w \in Workers :
        (pc[w] = "size_flush") ~>
            (pc[w] = "done" /\ batch_lock = 0 /\ handed[w] >= 1)

\* C7: while the listener is running, every enqueued item is eventually
\* removed from the queue and passed to add_posts_batch.
C7_PeriodicFlushDrainsQueue ==
    \A w \in Workers :
        (running /\ InQueue(w)) ~>
            (~running \/ (~InQueue(w) /\ handed[w] >= 1))

\* C8: stop() terminates, and when it has returned the flush task is
\* cancelled and the queue is empty.
C8_StopTerminatesWithEmptyQueue ==
    (stop_pc = "final_flush") ~>
        (stop_pc = "done" /\ post_batch = <<>>
            /\ flush_task \in {"none", "ended"})

\* C9: the storage handle is closed only after all pending per-message
\* workers have finished.
C9_CloseAfterWorkers ==
    db_closed => \A w \in Workers : pc[w] \in {"idle", "done"}

\* C10: each enqueued item is handed to add_posts_batch at most once, and
\* an item that was handed over is never in the queue again, whether the
\* call failed or not.
C10_HandedAtMostOnce ==
    /\ \A w \in Workers : handed[w] <= 1
    /\ \A w \in Workers : handed[w] >= 1 => ~InQueue(w)
    /\ \A i, j \in 1..Len(post_batch) :
          post_batch[i].src = post_batch[j].src => i = j

\* two items were handed over by two different flushes, the calls failed
\* and the items are gone
C10_Witness ==
    /\ \A w \in Workers : handed[w] = 1
    /\ post_batch = <<>>
    /\ flush_local = <<>> /\ start_local = <<>> /\ stop_local = <<>>
    /\ posts_with_whitelisted_links = NumWorkers

----------------------------------------------------------------------------
\* the add_posts_batch calls of the writer that are awaited now
CallsInProgress ==
    (IF flush_task = "call" THEN 1 ELSE 0)
  + (IF start_pc = "call" THEN 1 ELSE 0)
  + (IF stop_pc = "call" THEN 1 ELSE 0)

\* C11: at most one flush is in progress at any time: two add_posts_batch
\* calls issued by the writer never overlap.
C11_OneFlushAtATime ==
    CallsInProgress <= 1

----------------------------------------------------------------------------
(* Queue driver: a listener constructed with a batch_size above the        *)
(* capacity of the deque, so that the size trigger never fires; accepted   *)
(* items are appended under the lock and the periodic flush drains.        *)

QueueItems == {[kind |-> "bool", src |-> i] : i \in 1..(QueueMaxLen + 1)}

\* async with self._batch_lock: self._post_batch.append(post_data)
QueueAppend(x) ==
    /\ ncalls < MaxCalls
    /\ batch_lock = 0
    /\ post_batch' = deque_append(post_batch, x)
    /\ ncalls' = ncalls + 1
    /\ UNCHANGED <<dbvars, filtervars, batch_lock, handed, flushvars, workervars,
                   lifevars, call, ret, sightings, msgvars, batchvars, sess,
                   reposted, maintvars, feedvars, cfgvars>>

\* async with self._batch_lock: batch = list(...); self._post_batch.clear()
QueueDrain ==
    /\ batch_lock = 0
    /\ post_batch # <<>>
    /\ post_batch' = drain(post_batch).queue
    /\ UNCHANGED <<dbvars, filtervars, batch_lock, handed, flushvars, workervars,
                   lifevars, drvvars>>

NextQueue ==
    \/ \E x \in QueueItems : QueueAppend(x)
    \/ QueueDrain

SpecQueue == Init /\ [][NextQueue]_vars

\* C12: the queue never holds more items than its capacity, and an append
\* to a full queue discards the new item and leaves the queued items
\* unchanged.
C12_FullQueueDropsNewItem ==
    [][ncalls' = ncalls + 1 =>
          /\ Len(post_batch') <= QueueMaxLen
          /\ (Len(post_batch) >= QueueMaxLen => post_batch' = post_batch)]_vars

----------------------------------------------------------------------------
(* Message driver: the worker of one firehose message, run to its end.    *)
(* A message is named by what happens while it is processed.               *)

MsgKinds ==
    {"parse_error",     \* parse_subscribe_repos_message raises
     "not_commit",      \* not a Commit
     "no_blocks",       \* commit.blocks is empty
     "bad_car",         \* CAR.from_bytes raises ValueError
     "bad_record",      \* car.blocks.get raises KeyError
     "handler_error",   \* _has_links raises on a misshapen record
     "storage_error",   \* db.add_post raises inside the post callback
     "rejected",        \* the callback returns False
     "no_links"}        \* _has_links returns False

\* the try block of FeedGenerator._handle_post
callback_body(m) ==
    IF m = "storage_error" THEN [ret |-> "none", exc |-> "OperationalError"]
    ELSE [ret |-> "False", exc |-> "none"]

\* FeedGenerator._handle_post: an exception raised in its body is logged
\* and turned into False
on_post_callback(m) ==
    LET r == callback_body(m)
    IN IF r.exc # "none" THEN [ret |-> "False", exc |-> "none"] ELSE r

\* FirehoseListener._handle_post: the exception it logs and re-raises
handle_post(m) ==
    IF m = "handler_error" THEN "TypeError"
    ELSE IF m = "no_links" THEN "none"
    ELSE on_post_callback(m).exc

\* FirehoseListener._process_message on the counters st; exc is the
\* exception that leaves it
process_message(m, st) ==
    IF m = "parse_error" THEN [st EXCEPT !.exc = "ValueError"]
    ELSE IF m \in {"not_commit", "no_blocks"} THEN st
    ELSE IF m = "bad_car" THEN st
    ELSE IF m = "bad_record" THEN st
    ELSE IF handle_post(m) # "none"
         THEN [st EXCEPT !.errors = st.errors + 1]
         ELSE [st EXCEPT !.posts_processed = st.posts_processed + 1]

\* FirehoseListener._process_message_wrapper
process_message_wrapper(m, st) ==
    LET r == process_message(m, st)
    IN IF r.exc # "none"
       THEN [r EXCEPT !.errors = r.errors + 1, !.exc = "none"]
       ELSE r

\* the worker task of one message runs to its end
ProcessMessage(m) ==
    /\ ncalls < MaxCalls
    /\ \E r \in {process_message_wrapper(m,
                    [errors |-> errors, posts_processed |-> posts_processed,
                     exc |-> "none"])} :
          /\ errors' = r.errors
          /\ posts_processed' = r.posts_processed
          /\ outcome' = [kind |-> m, escaped |-> r.exc]
    /\ ncalls' = ncalls + 1
    /\ UNCHANGED <<pipevars, dbvars, call, ret, sightings, batchvars, sess,
                   reposted, maintvars, feedvars, cfgvars>>

NextMsg == \E m \in MsgKinds : ProcessMessage(m)

SpecMsg == Init /\ [][NextMsg]_vars

\* exceptions that are not input corruption (malformed blocks and records
\* are skipped with a debug log)
CountedErrors == {"parse_error", "handler_error", "storage_error"}

\* C13: an exception raised while a message is processed never leaves the
\* worker, the error counter is incremented exactly once for that message,
\* and a message that raises nothing is processed whatever came before.
C13_ExceptionsCountedOnce ==
    [][ncalls' = ncalls + 1 =>
          /\ outcome'.escaped = "none"
          /\ errors' = errors + (IF outcome'.kind \in CountedErrors THEN 1 ELSE 0)
          /\ (outcome'.kind \in {"rejected", "no_links"} =>
                posts_processed' = posts_processed + 1)]_vars

----------------------------------------------------------------------------
(* Batch driver: a caller builds a list of post dictionaries, awaits       *)
(* add_posts_batch on it and drops the list; calls follow one another.     *)

\* longest list passed to add_posts_batch
MaxBatch == 3

BatchUris ==
    {AtUri(RepoOf(1), PathOf(1)), AtUri(RepoOf(2), PathOf(1)),
     AtUri(RepoOf(2), PathOf(2))}

\* post dictionaries, and an element that is not a dictionary
BatchItems ==
    {i \in DrvItems : i.uri \in BatchUris /\ i.cid = CidOf(1)}
        \cup {[NoCall EXCEPT !.kind = "bool"]}

BatchPush(item) ==
    /\ batch_ret.err = "none"
    /\ Len(batch_arg) < MaxBatch
    /\ batch_arg' = Append(batch_arg, item)
    /\ UNCHANGED <<pipevars, dbvars, ncalls, call, ret, sightings, msgvars,
                   batch_ret, sess, reposted, maintvars, feedvars, cfgvars>>

\* await db.add_posts_batch(batch)
BatchCall ==
    /\ batch_ret.err = "none"
    /\ ncalls < MaxCalls
    /\ \E r \in {add_posts_batch(Db, batch_arg)} :
          /\ SetDb(r.db)
          /\ batch_ret' = [ret |-> r.ret,
                           err |-> IF r.err = "ok" THEN "returned" ELSE r.err]
    /\ ncalls' = ncalls + 1
    /\ UNCHANGED <<pipevars, call, ret, sightings, msgvars, batch_arg, sess,
                   reposted, maintvars, feedvars, cfgvars>>

\* the caller goes on after the call returned or raised
BatchDone ==
    /\ batch_ret.err # "none"
    /\ batch_arg' = <<>>
    /\ batch_ret' = [ret |-> 0, err |-> "none"]
    /\ UNCHANGED <<pipevars, dbvars, ncalls, call, ret, sightings, msgvars,
                   sess, reposted, maintvars, feedvars, cfgvars>>

NextBatch ==
    \/ \E item \in BatchItems : BatchPush(item)
    \/ BatchCall
    \/ BatchDone

SpecBatch == Init /\ [][NextBatch]_vars

AllDicts(batch) == \A i \in 1..Len(batch) : batch[i].kind = "dict"

ShareCountIn(rows, url) ==
    IF \E r \in rows : r.url = url
    THEN (CHOOSE r \in rows : r.url = url).share_count
    ELSE 0

\* C14: add_posts_batch skips an element whose Post URI already exists
\* without aborting the batch: the call returns, and every element whose
\* URI was new is persisted with its Post, its Link and its URL sighting,
\* wherever the duplicate stands in the list.
C14_BatchSkipsDuplicates ==
    [][(ncalls' = ncalls + 1 /\ AllDicts(batch_arg)) =>
          /\ batch_ret'.err = "returned"
          /\ \A i \in 1..Len(batch_arg) :
                (~\E p \in posts : p.uri = batch_arg[i].uri) =>
                    /\ \E p \in posts' : p.uri = batch_arg[i].uri
                    /\ \E l \in post_urls', r \in urls' :
                          /\ l.post_uri = batch_arg[i].uri
                          /\ l.url_id = r.id
          /\ \A r \in urls' :
                r.share_count = ShareCountIn(urls, r.url)
                    + Cardinality({l \in post_urls' \ post_urls :
                                      l.url_id = r.id})]_vars

\* C15: the number returned by add_posts_batch equals the number of Post
\* rows the call added to storage.
C15_BatchReturnsAddedCount ==
    [][(ncalls' = ncalls + 1 /\ batch_ret'.err = "returned") =>
          batch_ret'.ret = Cardinality(posts') - Cardinality(posts)]_vars

\* C16: when add_posts_batch fails for a reason other than a duplicate
\* Post (here an element that is not a dictionary), the error is raised to
\* the caller and nothing of the batch is persisted: no Post, Link or URL
\* row and no share_count change.
C16_BatchFailureRollsBack ==
    [][(ncalls' = ncalls + 1 /\ ~AllDicts(batch_arg)) =>
          /\ batch_ret'.err = "TypeError"
          /\ posts' = posts
          /\ urls' = urls
          /\ post_urls' = post_urls
          /\ url_seq' = url_seq]_vars

\* a call failed on its last element after a new post and a second
\* sighting of its URL had been written inside the transaction, and
\* storage, filled by an earlier call, does not hold them
C16_Witness ==
    /\ batch_ret.err = "TypeError"
    /\ Len(batch_arg) = 3
    /\ batch_arg[1].kind = "dict" /\ batch_arg[2].kind = "dict"
    /\ batch_arg[1].uri # batch_arg[2].uri
    /\ ~\E p \in posts : p.uri = batch_arg[1].uri
    /\ posts # {}

----------------------------------------------------------------------------
(* Concurrent storage calls: every call opens its own session.  A session  *)
(* reads committed rows at its SELECT and writes at its commit; other      *)
(* sessions may commit in between.                                         *)

\* the s-th call adds a post of its own: distinct calls, distinct new posts
SessItem(s, url) ==
    [kind |-> "dict", uri |-> AtUri(RepoOf(s), PathOf(s)), cid |-> CidOf(s),
     url |-> url, domain |-> extract_domain(url)]

\* add_post up to the result of the SELECT of _get_or_create_url
AddPostSelect(s, url) ==
    /\ sess[s].pc = "idle"
    /\ sess' = [sess EXCEPT ![s] =
                  [NoSess EXCEPT !.pc = "selected", !.op = "add_post",
                                 !.item = SessItem(s, url),
                                 !.row = select_url(Db, url)]]
    /\ UNCHANGED <<pipevars, dbvars, ncalls, call, ret, sightings, msgvars,
                   batchvars, reposted,
                   maintvars, feedvars, cfgvars>>

\* the rest of add_post: the write transaction commits or is rolled back
AddPostWrite(s) ==
    /\ sess[s].pc = "selected"
    /\ sess[s].op = "add_post"
    /\ \E r \in {add_post_write(Db, sess[s].row, sess[s].item)} :
          /\ SetDb(r.db)
          /\ sess' = [sess EXCEPT ![s].pc = "done", ![s].ret = r.ret]
    /\ UNCHANGED <<pipevars, ncalls, call, ret, sightings, msgvars, batchvars,
                   reposted, maintvars, feedvars, cfgvars>>


Quiescent == \A s \in Sessions : sess[s].pc \in {"idle", "done"}

\* C17: when distinct new posts that reference the same URL are added by
\* concurrent calls, the URL's final share_count is the number of posts
\* that were added with it.
C17_ConcurrentSightingsAllCounted ==
    Quiescent =>
        \A r \in urls : r.share_count = Cardinality(LinksOf(r.id))

\* C18: add_post returns False only when a Post with the same URI is
\* already stored: a call that returned False finds its URI in storage.
C18_FalseOnlyForStoredUri ==
    \A s \in Sessions :
        (sess[s].op = "add_post" /\ sess[s].ret = "False") =>
            \E p \in posts : p.uri = sess[s].item.uri

----------------------------------------------------------------------------
(* Repost counts: increment_repost_count calls issued one after the other, *)
(* interleaved with sequential add_post calls.                             *)

\* select(Post).where(Post.uri == post_uri) ... scalar_one_or_none()
select_post(db, uri) ==
    IF \E p \in db.posts : p.uri = uri
    THEN CHOOSE p \in db.posts : p.uri = uri
    ELSE NonePost

increment_repost_count_write_nowhere(db, post) ==
    IF post = NonePost THEN [db |-> db, ret |-> "False"]
    ELSE IF \E p \in db.posts : p.uri = post.uri
    THEN [db |-> [db EXCEPT !.posts =
                     {[p EXCEPT !.repost_count = post.repost_count + 1] :
                          p \in db.posts}],
          ret |-> "True"]
    ELSE [db |-> db, ret |-> "raise"]

\* increment_repost_count after its SELECT returned post: the value read
\* plus one is written to the row of that URI (UPDATE ... WHERE uri = ?) and
\* committed; None returns False.  An UPDATE that matches no row raises
\* (StaleDataError).
increment_repost_count_write(db, post) ==
    IF post = NonePost THEN [db |-> db, ret |-> "False"]
    ELSE IF \E p \in db.posts : p.uri = post.uri
    THEN [db |-> [db EXCEPT !.posts =
                     {IF p.uri = post.uri
                      THEN [p EXCEPT !.repost_count = post.repost_count + 1]
                      ELSE p : p \in db.posts}],
          ret |-> "True"]
    ELSE [db |-> db, ret |-> "raise"]

\* increment_repost_count run by one session with no other session in between
increment_repost_count(db, uri) ==
    increment_repost_count_write(db, select_post(db, uri))

\* await db.increment_repost_count(uri)
DbIncrementRepost(uri) ==
    /\ ncalls < MaxCalls
    /\ \E r \in {increment_repost_count(Db, uri)} :
          /\ SetDb(r.db)
          /\ ret' = r.ret
          /\ reposted' = IF r.ret = "True"
                         THEN [reposted EXCEPT ![uri] = @ + 1]
                         ELSE reposted
    /\ call' = [NoCall EXCEPT !.kind = "repost", !.uri = uri]
    /\ ncalls' = ncalls + 1
    /\ UNCHANGED <<pipevars, sightings, msgvars, batchvars, sess, maintvars, feedvars, cfgvars>>

NextRepost ==
    \/ \E item \in DrvItems : DbAddPost(item)
    \/ \E uri \in DrvUris : DbIncrementRepost(uri)

SpecRepost == Init /\ [][NextRepost]_vars

\* C19: a new Post starts with repost_count 0 and, after any sequence of
\* operations, the repost_count of every stored Post is the number of
\* increment_repost_count calls for its URI that returned True since it was
\* inserted; increments on one Post leave every other Post's count alone.
C19_RepostCountCountsIncrements ==
    /\ \A p \in posts : p.repost_count = reposted[p.uri]
    /\ \A u \in DrvUris : (~\E p \in posts : p.uri = u) => reposted[u] = 0

\* two stored posts, one incremented twice and the other never
C19_Witness ==
    \E p \in posts, q \in posts :
        /\ p.repost_count = 2
        /\ q.repost_count = 0
        /\ call.kind = "repost" /\ ret = "True"

----------------------------------------------------------------------------
(* Concurrent increment_repost_count calls, with the concurrent add_post   *)
(* calls above: repost workers are tasks of their own, one per message.    *)

SessUris == {SessItem(s, NoneUrl).uri : s \in Sessions}

\* increment_repost_count up to the result of its SELECT
RepostSelect(s, uri) ==
    /\ sess[s].pc = "idle"
    /\ sess' = [sess EXCEPT ![s] =
                  [NoSess EXCEPT !.pc = "selected", !.op = "repost",
                                 !.item = [NoCall EXCEPT !.kind = "repost",
                                                         !.uri = uri],
                                 !.post = select_post(Db, uri)]]
    /\ UNCHANGED <<pipevars, dbvars, ncalls, call, ret, sightings, msgvars,
                   batchvars, reposted,
                   maintvars, feedvars, cfgvars>>

\* the rest of increment_repost_count: write back the count read plus one
\* and commit, or return False
RepostWrite(s) ==
    /\ sess[s].pc = "selected"
    /\ sess[s].op = "repost"
    /\ \E r \in {increment_repost_count_write(Db, sess[s].post)} :
          /\ SetDb(r.db)
          /\ sess' = [sess EXCEPT ![s].pc = "done", ![s].ret = r.ret]
    /\ UNCHANGED <<pipevars, ncalls, call, ret, sightings, msgvars, batchvars,
                   reposted, maintvars, feedvars, cfgvars>>

NextConc ==
    \/ \E s \in Sessions, url \in DrvUrls : AddPostSelect(s, url)
    \/ \E s \in Sessions : AddPostWrite(s)
    \/ \E s \in Sessions, uri \in SessUris : RepostSelect(s, uri)
    \/ \E s \in Sessions : RepostWrite(s)

SpecConc == Init /\ [][NextConc]_vars

\* the repost calls for uri that have returned True
TrueReposts(uri) ==
    {s \in Sessions : /\ sess[s].op = "repost"
                      /\ sess[s].item.uri = uri
                      /\ sess[s].ret = "True"}

\* C20: when repost workers run increment_repost_count for the same stored
\* Post concurrently, every one of them returns True and, once they have all
\* finished, the Post's repost_count is the number of those calls.
C20_ConcurrentRepostsAllCounted ==
    /\ \A s \in Sessions :
          (sess[s].op = "repost" /\ sess[s].pc = "done"
              /\ sess[s].post # NonePost) => sess[s].ret = "True"
    /\ Quiescent =>
          \A p \in posts : p.repost_count = Cardinality(TrueReposts(p.uri))

----------------------------------------------------------------------------
(* Maintenance: time-window deletion and the orphan sweep, and the repost  *)
(* path of the listener, as calls issued one after the other.              *)

MaxOf(S) == IF S = {} THEN 0 ELSE CHOOSE x \in S : \A y \in S : y <= x

posts_in_period_closed(rows, start_date, end_date) ==
    {p \in rows : /\ (start_date # NoneTime => p.created_at >= start_date)
                  /\ (end_date # NoneTime => p.created_at <= end_date)}

\* the WHERE clause of delete_posts_in_period: created_at >= start_date
\* when start_date is given, created_at < end_date when end_date is given
posts_in_period(rows, start_date, end_date) ==
    {p \in rows : /\ (start_date # NoneTime => p.created_at >= start_date)
                  /\ (end_date # NoneTime => p.created_at < end_date)}

delete_posts_nocascade(db, deleted) ==
    [db EXCEPT !.posts = db.posts \ deleted]

\* DELETE FROM posts for the rows deleted; post_urls.post_uri is a foreign
\* key with ON DELETE CASCADE and foreign keys are enabled on every
\* connection
delete_posts(db, deleted) ==
    [db EXCEPT !.posts = db.posts \ deleted,
               !.post_urls = {l \in db.post_urls :
                                 ~\E p \in deleted : p.uri = l.post_uri}]

\* delete_posts_in_period on a connection without PRAGMA foreign_keys=ON
delete_posts_in_period_nopragma(db, start_date, end_date) ==
    IF start_date = NoneTime /\ end_date = NoneTime
    THEN [db |-> db, n |-> 0]
    ELSE LET deleted == posts_in_period(db.posts, start_date, end_date)
         IN [db |-> [db EXCEPT !.posts = db.posts \ deleted],
             n |-> Cardinality(deleted)]

\* delete_posts_in_period: nothing without a bound, else one DELETE and
\* its rowcount
delete_posts_in_period(db, start_date, end_date) ==
    IF start_date = NoneTime /\ end_date = NoneTime
    THEN [db |-> db, n |-> 0]
    ELSE LET deleted == posts_in_period(db.posts, start_date, end_date)
         IN [db |-> delete_posts(db, deleted), n |-> Cardinality(deleted)]

\* delete_old_posts: cutoff_time = utcnow() - timedelta(days=days)
delete_old_posts(db, days) == delete_posts_in_period(db, NoneTime, UtcNow - days)

orphaned_ids_all(db) == {r.id : r \in db.urls}

\* all_url_ids - active_url_ids
orphaned_ids(db) ==
    {r.id : r \in db.urls} \ {l.url_id : l \in db.post_urls}

\* delete(URL).where(URL.id.in_(ids)) and its rowcount, committed;
\* post_urls.url_id cascades.  urls.id is the rowid of the table: the next
\* id is one more than the largest id left.
delete_urls(db, ids) ==
    LET kept == {r \in db.urls : r.id \notin ids}
    IN [db |-> [db EXCEPT !.urls = kept,
                          !.post_urls = {l \in db.post_urls : l.url_id \notin ids},
                          !.url_seq = MaxOf({r.id : r \in kept})],
        n |-> Cardinality(db.urls \ kept)]

\* cleanup_orphaned_urls run by one session with no other session in
\* between: the two SELECTs, then the DELETE of the orphaned ids
cleanup_orphaned_urls(db) == delete_urls(db, orphaned_ids(db))

\* FeedGenerator._handle_repost: the result of increment_repost_count, False
\* when it raises
on_repost_callback(db, uri) ==
    LET r == increment_repost_count(db, uri)
    IN IF r.ret = "raise" THEN [db |-> db, ret |-> "False"] ELSE r

\* a repost record: its subject and the subject's uri may be missing
RepostRecord(has_subject, has_uri, uri) ==
    [has_subject |-> has_subject, has_uri |-> has_uri, uri |-> uri]

handle_repost_counts_all(db, record, tracked) ==
    IF ~record.has_subject \/ ~record.has_uri
    THEN [db |-> db, tracked |-> tracked, ret |-> "none"]
    ELSE LET r == on_repost_callback(db, record.uri)
         IN [db |-> r.db, tracked |-> tracked + 1, ret |-> r.ret]

\* FirehoseListener._handle_repost: records without a subject URI are
\* skipped; _reposts_tracked counts the callbacks that returned True
handle_repost(db, record, tracked) ==
    IF ~record.has_subject \/ ~record.has_uri
    THEN [db |-> db, tracked |-> tracked, ret |-> "none"]
    ELSE LET r == on_repost_callback(db, record.uri)
         IN [db |-> r.db,
             tracked |-> IF r.ret = "True" THEN tracked + 1 ELSE tracked,
             ret |-> r.ret]

\* creation timestamps of the posts of the maintenance driver, around UtcNow
Times == 1..3

MaintUris == {AtUri(RepoOf(1), PathOf(1)), AtUri(RepoOf(2), PathOf(1))}

\* a post URI that is never stored
UntrackedUri == AtUri(RepoOf(2), PathOf(2))

MaintItems ==
    { [kind |-> "dict", uri |-> u, cid |-> CidOf(1), url |-> url,
       domain |-> extract_domain(url), created_at |-> t] :
        u \in MaintUris, url \in DrvUrls, t \in Times }

\* the lists passed to add_posts_batch: at most two elements
MaintBatches ==
    LET items == {i \in MaintItems : i.created_at = UtcNow}
    IN {<<>>} \cup {<<i>> : i \in items}
              \cup {<<i, j>> : i \in items, j \in items}

RepostRecords ==
    {RepostRecord(FALSE, FALSE, UntrackedUri),
     RepostRecord(TRUE, FALSE, UntrackedUri)}
        \cup {RepostRecord(TRUE, TRUE, u) : u \in MaintUris \cup {UntrackedUri}}

\* select(Post.repost_count).where(Post.uri == uri) after the operation,
\* for every stored post
MaintFrame ==
    /\ observed' = [u \in DrvUris |->
                       IF \E p \in posts' : p.uri = u
                       THEN (CHOOSE p \in posts' : p.uri = u).repost_count
                       ELSE observed[u]]
    /\ UNCHANGED <<pipevars, call, ret, sightings, msgvars, batchvars, sess,
                   reposted, sweep, feedvars, cfgvars>>

\* await db.add_post(**item)
MaintAddPost(item) ==
    /\ ncalls < MaxCalls
    /\ \E r \in {add_post(Db, item)} :
          /\ SetDb(r.db)
          /\ op' = [NoOp EXCEPT !.kind = "add_post", !.uri = item.uri,
                                !.ret = r.ret]
    /\ ncalls' = ncalls + 1
    /\ UNCHANGED reposts_tracked
    /\ MaintFrame

\* await db.add_posts_batch(batch)
MaintAddPostsBatch(batch) ==
    /\ ncalls < MaxCalls
    /\ \E r \in {add_posts_batch(Db, batch)} :
          /\ SetDb(r.db)
          /\ op' = [NoOp EXCEPT !.kind = "add_posts_batch", !.ret = r.err,
                                !.n = r.ret]
    /\ ncalls' = ncalls + 1
    /\ UNCHANGED reposts_tracked
    /\ MaintFrame

\* a repost operation of a commit, handled by the listener
MaintRepost(record) ==
    /\ ncalls < MaxCalls
    /\ \E r \in {handle_repost(Db, record, reposts_tracked)} :
          /\ SetDb(r.db)
          /\ reposts_tracked' = r.tracked
          /\ op' = [NoOp EXCEPT !.kind = "repost", !.uri = record.uri,
                                !.ret = r.ret]
    /\ ncalls' = ncalls + 1
    /\ MaintFrame

\* await db.delete_posts_in_period(start_date, end_date)
MaintDeletePeriod(start_date, end_date) ==
    /\ ncalls < MaxCalls
    /\ \E r \in {delete_posts_in_period(Db, start_date, end_date)} :
          /\ SetDb(r.db)
          /\ op' = [NoOp EXCEPT !.kind = "delete_posts_in_period",
                                !.start = start_date, !.end = end_date,
                                !.n = r.n]
    /\ ncalls' = ncalls + 1
    /\ UNCHANGED reposts_tracked
    /\ MaintFrame

\* await db.delete_old_posts(days)
MaintDeleteOld(days) ==
    /\ ncalls < MaxCalls
    /\ \E r \in {delete_old_posts(Db, days)} :
          /\ SetDb(r.db)
          /\ op' = [NoOp EXCEPT !.kind = "delete_old_posts",
                                !.end = UtcNow - days, !.n = r.n]
    /\ ncalls' = ncalls + 1
    /\ UNCHANGED reposts_tracked
    /\ MaintFrame

\* await db.cleanup_orphaned_urls()
MaintCleanup ==
    /\ ncalls < MaxCalls
    /\ \E r \in {cleanup_orphaned_urls(Db)} :
          /\ SetDb(r.db)
          /\ op' = [NoOp EXCEPT !.kind = "cleanup_orphaned_urls", !.n = r.n]
    /\ ncalls' = ncalls + 1
    /\ UNCHANGED reposts_tracked
    /\ MaintFrame

NextMaint ==
    \/ \E item \in MaintItems : MaintAddPost(item)
    \/ \E batch \in MaintBatches : MaintAddPostsBatch(batch)
    \/ \E record \in RepostRecords : MaintRepost(record)
    \/ \E start_date \in Times \cup {NoneTime},
          end_date \in Times \cup {NoneTime} :
              MaintDeletePeriod(start_date, end_date)
    \/ \E days \in {0, 1} : MaintDeleteOld(days)
    \/ MaintCleanup

SpecMaint == Init /\ [][NextMaint]_vars

\* the step is a call of the maintenance driver
MaintStep(kind) == ncalls' = ncalls + 1 /\ op'.kind = kind

Stored(uri) == \E p \in posts : p.uri = uri

\* C21: a repost whose subject URI is not a stored Post changes nothing:
\* the increment returns False, no Post is created, no counter in storage
\* changes and the listener's reposts_tracked counter is not incremented.
C21_UntrackedRepostChangesNothing ==
    [][(MaintStep("repost") /\ op'.ret # "none" /\ ~Stored(op'.uri)) =>
          /\ op'.ret = "False"
          /\ posts' = posts
          /\ urls' = urls
          /\ post_urls' = post_urls
          /\ reposts_tracked' = reposts_tracked]_vars

\* a repost of an untracked URI has just been handled, after a repost of a
\* stored Post was counted
C21_Witness ==
    /\ op.kind = "repost" /\ op.ret = "False"
    /\ ~Stored(op.uri)
    /\ reposts_tracked = 1
    /\ \E p \in posts : p.repost_count = 1

InWindow(p, start_date, end_date) ==
    /\ (start_date = NoneTime \/ start_date <= p.created_at)
    /\ (end_date = NoneTime \/ p.created_at < end_date)

\* C22: delete_posts_in_period(start, end) deletes exactly the Posts with
\* start <= created_at < end, an absent bound being unbounded on that side,
\* and returns their number; with both bounds absent it deletes nothing and
\* returns 0.  delete_old_posts is the call with end = now - days.
C22_DeletesHalfOpenWindow ==
    [][(MaintStep("delete_posts_in_period") \/ MaintStep("delete_old_posts")) =>
          LET gone == IF op'.start = NoneTime /\ op'.end = NoneTime
                      THEN {}
                      ELSE {p \in posts : InWindow(p, op'.start, op'.end)}
          IN /\ posts' = posts \ gone
             /\ op'.n = Cardinality(gone)]_vars

\* a deletion with both bounds removed one Post and kept the Post created
\* exactly at the end of the window
C22_Witness ==
    /\ op.kind = "delete_posts_in_period"
    /\ op.start # NoneTime /\ op.end # NoneTime
    /\ op.n = 1
    /\ \E p \in posts : p.created_at = op.end

DeleteStep == MaintStep("delete_posts_in_period") \/ MaintStep("delete_old_posts")

\* C23: delete_posts_in_period and delete_old_posts remove the Links of the
\* deleted Posts and leave every URL row, share_count included, unchanged;
\* the Posts that are not deleted and their Links are unchanged.
C23_DeleteCascadesToLinksOnly ==
    [][DeleteStep =>
          /\ posts' \subseteq posts
          /\ post_urls' = {l \in post_urls :
                              ~\E p \in posts \ posts' : p.uri = l.post_uri}
          /\ urls' = urls
          /\ url_seq' = url_seq]_vars

\* a deletion removed one of the two Posts that share a URL: the URL keeps
\* share_count 2 and the Link of the other Post
C23_Witness ==
    /\ op.kind \in {"delete_posts_in_period", "delete_old_posts"}
    /\ op.n = 1
    /\ Cardinality(posts) = 1
    /\ \E r \in urls : r.share_count = 2 /\ Cardinality(LinksOf(r.id)) = 1

\* C24: cleanup_orphaned_urls deletes exactly the URLs that have no Link and
\* returns their number; every URL that has a Link, and every Post and Link,
\* is left unchanged.
C24_CleanupDeletesExactlyOrphans ==
    [][MaintStep("cleanup_orphaned_urls") =>
          /\ urls' = {r \in urls : LinksOf(r.id) # {}}
          /\ op'.n = Cardinality(urls) - Cardinality(urls')
          /\ posts' = posts
          /\ post_urls' = post_urls]_vars

\* the sweep removed one orphaned URL and kept the URL of a stored Post
C24_Witness ==
    /\ op.kind = "cleanup_orphaned_urls"
    /\ op.n = 1
    /\ posts # {}
    /\ \E r \in urls : LinksOf(r.id) # {}

LinksOfPost(uri) == {l \in post_urls : l.post_uri = uri}

----------------------------------------------------------------------------
(* Ranking: the projections of storage, rank_posts and get_feed_skeleton.  *)
(* Scores are kept in thousandths; one time unit is max_age_hours.         *)

\* the order of URI strings
UriKey(uri) == uri.repo[2] * 10 + uri.path[2]

MinOf2(a, b) == IF a <= b THEN a ELSE b

\* seq[:n]
Take(seq, n) == SubSeq(seq, 1, MinOf2(n, Len(seq)))

\* seq[n:]
Drop(seq, n) == SubSeq(seq, MinOf2(n, Len(seq)) + 1, Len(seq))

\* Python's None where a domain is expected
NoDomain == <<>>

\* the dictionary get_recent_posts and get_posts_by_domain build from a row
\* of the join of posts, post_urls and urls
PostDict(post, url) ==
    [uri |-> post.uri, cid |-> post.cid, created_at |-> post.created_at,
     url |-> url.url, domain |-> url.domain, share_count |-> url.share_count,
     repost_count |-> post.repost_count]

\* select(Post, URL, PostURL).join(...).join(...)
joined(db) ==
    {PostDict(t[1], t[3]) :
        t \in {t \in db.posts \X db.post_urls \X db.urls :
                  t[1].uri = t[2].post_uri /\ t[2].url_id = t[3].id}}

\* ORDER BY created_at DESC; rows with equal created_at come in the order
\* of the table
RECURSIVE order_by_created_at_desc(_)
order_by_created_at_desc(rows) ==
    IF rows = {} THEN <<>>
    ELSE LET first == CHOOSE x \in rows : \A y \in rows :
                         \/ x.created_at > y.created_at
                         \/ /\ x.created_at = y.created_at
                            /\ UriKey(x.uri) <= UriKey(y.uri)
         IN <<first>> \o order_by_created_at_desc(rows \ {first})

\* get_recent_posts(hours, limit)
get_recent_posts(db, hours, limit) ==
    Take(order_by_created_at_desc(
             {r \in joined(db) : r.created_at >= UtcNow - hours}), limit)

\* get_posts_by_domain(domain, limit, offset)
get_posts_by_domain(db, domain, limit, offset) ==
    Take(Drop(order_by_created_at_desc(
                  {r \in joined(db) : r.domain = domain}), offset), limit)

\* math.exp(-decay_rate * url_age_hours) with decay_rate 0.05, in thousandths
decay_factor(url_age_hours) ==
    IF url_age_hours <= 0 THEN 1000
    ELSE IF url_age_hours = 1 THEN 27
    ELSE 1

\* calculate_score with repost_weight 1.0
calculate_score(share_count, url_age_hours, repost_count) ==
    (IF repost_count < 1 THEN 1 ELSE repost_count) * share_count
        * decay_factor(url_age_hours)

\* the scoring loop of rank_posts over posts that carry url_first_seen
RECURSIVE score_posts(_, _)
score_posts(posts_list, cfg) ==
    IF posts_list = <<>> THEN <<>>
    ELSE LET post == Head(posts_list)
             url_age_hours == UtcNow - post.url_first_seen
             rest == score_posts(Tail(posts_list), cfg)
         IN IF \/ url_age_hours > cfg.max_age_hours
               \/ post.share_count < cfg.min_share_count
               \/ post.repost_count < cfg.min_repost_count
            THEN rest
            ELSE <<post @@ [url_age_hours |-> url_age_hours,
                            score |-> calculate_score(post.share_count,
                                                      url_age_hours,
                                                      post.repost_count)]>>
                 \o rest

RemoveAt(seq, i) == SubSeq(seq, 1, i - 1) \o SubSeq(seq, i + 1, Len(seq))

\* scored_posts.sort(key=score, reverse=True): stable, equal scores keep
\* the order of the query
RECURSIVE sort_by_score(_)
sort_by_score(scored) ==
    IF scored = <<>> THEN <<>>
    ELSE LET i == CHOOSE i \in 1..Len(scored) :
                      /\ \A j \in 1..Len(scored) : scored[j].score <= scored[i].score
                      /\ \A j \in 1..(i - 1) : scored[j].score < scored[i].score
         IN <<scored[i]>> \o sort_by_score(RemoveAt(scored, i))

\* the max_posts_per_url loop: a post is kept while fewer than max posts of
\* its URL were kept before it
RECURSIVE limit_per_url(_, _, _)
limit_per_url(scored, kept, max) ==
    IF scored = <<>> THEN kept
    ELSE LET post == Head(scored)
             current_count ==
                 Cardinality({i \in 1..Len(kept) : kept[i].url = post.url})
         IN limit_per_url(Tail(scored),
                          IF current_count < max THEN Append(kept, post)
                          ELSE kept,
                          max)

\* rank_posts(limit, domain); a negative limit stands for None.
\* post["url_first_seen"] raises KeyError for a dictionary without that key.
rank_posts(db, cfg, limit, domain) ==
    LET posts_list ==
            IF domain # NoDomain
            THEN get_posts_by_domain(db, domain, 1000, 0)
            ELSE get_recent_posts(db, cfg.max_age_hours, 5000)
    IN IF \E i \in 1..Len(posts_list) :
             "url_first_seen" \notin DOMAIN posts_list[i]
       THEN [err |-> "KeyError", posts |-> <<>>]
       ELSE LET sorted == sort_by_score(score_posts(posts_list, cfg))
                scored == IF cfg.max_posts_per_url >= 0
                          THEN limit_per_url(sorted, <<>>, cfg.max_posts_per_url)
                          ELSE sorted
            IN [err |-> "none",
                posts |-> Take(scored, IF limit < 0 THEN cfg.results_limit
                                       ELSE limit)]

\* a string that is the URI of no post
NoUri == AtUri(RepoOf(0), PathOf(0))

\* the pieces of the text of a cursor
Token(t, score, uri) == [t |-> t, score |-> score, uri |-> uri]

\* a cursor string: whether it is valid base64, and the text it decodes to
CursorStr(b64, text) == [kind |-> "str", b64 |-> b64, text |-> text]

\* _encode_cursor: base64 of f"{score}::{uri}"
encode_cursor(score, uri) ==
    CursorStr(TRUE, <<Token("float", score, NoUri), Token("::", 0, NoUri),
                      Token("uri", 0, uri)>>)

\* _decode_cursor: base64-decode, split at the first "::", float(parts[0]);
\* every failure is raised as ValueError
decode_cursor(cursor) ==
    LET text == cursor.text
        seps == {i \in 1..Len(text) : text[i].t = "::"}
    IN IF ~cursor.b64 \/ seps = {}
       THEN [err |-> "ValueError", score |-> 0, uri |-> NoUri]
       ELSE LET k == CHOOSE i \in seps : \A j \in seps : i <= j
                rest == SubSeq(text, k + 1, Len(text))
            IN IF k # 2 \/ text[1].t # "float"
               THEN [err |-> "ValueError", score |-> 0, uri |-> NoUri]
               ELSE [err |-> "none", score |-> text[1].score,
                     uri |-> IF Len(rest) = 1 /\ rest[1].t = "uri"
                             THEN rest[1].uri ELSE NoUri]

\* the truth value of the cursor argument: None and "" are false
Truthy(cursor) == cursor.kind = "str" /\ ~(cursor.b64 /\ cursor.text = <<>>)

UrisOf(posts_list) == [i \in 1..Len(posts_list) |-> posts_list[i].uri]

\* the posts after the cursor position, or the score-based fallback when
\* the position is not in the list
filter_by_cursor(ranked_posts, cursor_score, cursor_uri) ==
    LET hits == {i \in 1..Len(ranked_posts) :
                    /\ ranked_posts[i].uri = cursor_uri
                    /\ ranked_posts[i].score = cursor_score}
    IN IF hits # {}
       THEN Drop(ranked_posts, CHOOSE i \in hits : \A j \in hits : i <= j)
       ELSE SelectSeq(ranked_posts,
                LAMBDA post :
                    \/ post.score < cursor_score
                    \/ /\ post.score = cursor_score
                       /\ UriKey(post.uri) > UriKey(cursor_uri))

\* get_feed_skeleton without the except ValueError around _decode_cursor
get_feed_skeleton_strict_cursor(db, cfg, limit, cursor) ==
    LET decoded == IF Truthy(cursor) THEN decode_cursor(cursor)
                   ELSE [err |-> "none", score |-> 0, uri |-> NoUri]
        ranked == rank_posts(db, cfg, limit + 1, NoDomain)
        page_posts == Take(ranked.posts, limit)
    IN IF decoded.err # "none"
       THEN [err |-> decoded.err, feed |-> <<>>, cursor |-> NoCursor]
       ELSE IF ranked.err # "none"
       THEN [err |-> ranked.err, feed |-> <<>>, cursor |-> NoCursor]
       ELSE [err |-> "none", feed |-> UrisOf(page_posts), cursor |-> NoCursor]

\* get_feed_skeleton(limit, cursor)
get_feed_skeleton(db, cfg, limit, cursor) ==
    LET decoded == IF Truthy(cursor) THEN decode_cursor(cursor)
                   ELSE [err |-> "ValueError", score |-> 0, uri |-> NoUri]
        fetch_limit == IF Truthy(cursor) THEN limit * 3 ELSE limit + 1
        ranked == rank_posts(db, cfg, fetch_limit, NoDomain)
        filtered_posts ==
            IF decoded.err = "none"
            THEN filter_by_cursor(ranked.posts, decoded.score, decoded.uri)
            ELSE ranked.posts
        page_posts == Take(filtered_posts, limit)
        has_more == Len(filtered_posts) > limit
    IN IF ranked.err # "none"
       THEN [err |-> ranked.err, feed |-> <<>>, cursor |-> NoCursor]
       ELSE [err |-> "none", feed |-> UrisOf(page_posts),
             cursor |-> IF has_more /\ Len(page_posts) > 0
                        THEN encode_cursor(page_posts[Len(page_posts)].score,
                                           page_posts[Len(page_posts)].uri)
                        ELSE NoCursor]

\* the longest pagination run that is followed
MaxPages == 6

\* a client that calls get_feed_skeleton with the cursor of the previous
\* response until a response carries no cursor
RECURSIVE paginate(_, _, _, _, _, _)
paginate(db, cfg, limit, cursor, feed, pages) ==
    LET r == get_feed_skeleton(db, cfg, limit, cursor)
    IN IF r.err # "none"
       THEN [limit |-> limit, err |-> r.err, feed |-> feed, pages |-> pages + 1]
       ELSE IF r.cursor = NoCursor
       THEN [limit |-> limit, err |-> "none", feed |-> feed \o r.feed,
             pages |-> pages + 1]
       ELSE IF pages + 1 >= MaxPages
       THEN [limit |-> limit, err |-> "more", feed |-> feed \o r.feed,
             pages |-> pages + 1]
       ELSE paginate(db, cfg, limit, r.cursor, feed \o r.feed, pages + 1)

\* posts created now and posts created before the ranking window
FeedItems ==
    { [kind |-> "dict", uri |-> u, cid |-> CidOf(1), url |-> url,
       domain |-> extract_domain(url), created_at |-> t] :
        u \in DrvUris, url \in DrvUrls, t \in {0, UtcNow} }

FeedLimits == {1, 2}

\* cursor arguments: none, the empty string, text that is not base64,
\* base64 of text without "::", and cursors of earlier responses
FeedCursors ==
    {NoCursor, CursorStr(TRUE, <<>>), CursorStr(FALSE, <<>>),
     CursorStr(TRUE, <<Token("chars", 0, NoUri)>>)}
        \cup {encode_cursor(1000, u) : u \in MaintUris}

FeedFrame ==
    UNCHANGED <<pipevars, call, ret, sightings, msgvars, batchvars, sess,
                reposted, maintvars, cfgvars>>

\* a write to storage: await db.add_post(**item)
FeedAddPost(item) ==
    /\ ncalls < MaxCalls
    /\ \E r \in {add_post(Db, item)} : SetDb(r.db)
    /\ resp' = NoResp
    /\ walk' = NoWalk
    /\ ranking' = NoRanked
    /\ ncalls' = ncalls + 1
    /\ FeedFrame

\* a write to storage: await db.increment_repost_count(uri)
FeedRepost(uri) ==
    /\ ncalls < MaxCalls
    /\ \E r \in {increment_repost_count(Db, uri)} : SetDb(r.db)
    /\ resp' = NoResp
    /\ walk' = NoWalk
    /\ ranking' = NoRanked
    /\ ncalls' = ncalls + 1
    /\ FeedFrame

\* await ranking_engine.get_feed_skeleton(limit, cursor)
FeedCall(limit, cursor) ==
    /\ ncalls < MaxCalls
    /\ \E r \in {get_feed_skeleton(Db, DefaultConfig, limit, cursor)} :
          resp' = [limit |-> limit, arg |-> cursor, err |-> r.err,
                   feed |-> r.feed, cursor |-> r.cursor, called |-> TRUE]
    /\ ncalls' = ncalls + 1
    /\ UNCHANGED <<dbvars, walk, ranking>>
    /\ FeedFrame

\* a client pages through the feed from the first page
FeedWalk(limit) ==
    /\ ncalls < MaxCalls
    /\ walk' = paginate(Db, DefaultConfig, limit, NoCursor, <<>>, 0)
    /\ ncalls' = ncalls + 1
    /\ UNCHANGED <<dbvars, resp, ranking>>
    /\ FeedFrame

NextFeed ==
    \/ \E item \in FeedItems : FeedAddPost(item)
    \/ \E uri \in DrvUris : FeedRepost(uri)
    \/ \E limit \in FeedLimits, cursor \in FeedCursors : FeedCall(limit, cursor)
    \/ \E limit \in FeedLimits : FeedWalk(limit)

SpecFeed == Init /\ [][NextFeed]_vars

\* the ranking of the stored posts, not paginated
FullRanking == rank_posts(Db, DefaultConfig, 5000, NoDomain)

\* C26: with no writes between calls, following the cursors returned by
\* get_feed_skeleton(limit=L) until a response carries no cursor yields
\* pages whose concatenation is the full non-paginated ranking, with no post
\* repeated and none skipped.
C26_PaginationCoversRanking ==
    walk.pages > 0 =>
        /\ walk.err = "none"
        /\ walk.feed = UrisOf(FullRanking.posts)

\* C27: a get_feed_skeleton response carries a cursor exactly when ranked
\* posts remain after the last post of the page; the page that ends the
\* ranking carries no cursor, and a cursor encodes the score and the URI of
\* the last emitted post.
C27_CursorIffMoreRemain ==
    resp.called =>
        /\ resp.err = "none"
        /\ LET full == FullRanking.posts
               n == Len(resp.feed)
               at == {i \in 1..Len(full) : n > 0 /\ full[i].uri = resp.feed[n]}
           IN /\ (resp.cursor # NoCursor) <=> (\E i \in at : i < Len(full))
              /\ (resp.cursor # NoCursor) =>
                    \E i \in at :
                        decode_cursor(resp.cursor) =
                            [err |-> "none", score |-> full[i].score,
                             uri |-> full[i].uri]

\* C28: get_feed_skeleton called with a cursor that cannot be decoded raises
\* no error and returns the same feed and the same cursor presence as the
\* call with no cursor and the same limit.
C28_InvalidCursorAsNoCursor ==
    (resp.called /\ Truthy(resp.arg) /\ decode_cursor(resp.arg).err # "none") =>
        /\ resp.err = "none"
        /\ LET plain == get_feed_skeleton(Db, DefaultConfig, resp.limit, NoCursor)
           IN /\ plain.err = "none"
              /\ resp.feed = plain.feed
              /\ (resp.cursor = NoCursor) <=> (plain.cursor = NoCursor)

\* C29: with no writes in between, two calls of get_feed_skeleton with the
\* same limit and the same cursor return the same list of post URIs in the
\* same order.
C29_RepeatedCallsSameFeed ==
    [][(/\ resp.called /\ resp'.called
        /\ ncalls' = ncalls + 1
        /\ walk' = walk
        /\ resp'.limit = resp.limit /\ resp'.arg = resp.arg) =>
          /\ resp.err = "none" /\ resp'.err = "none"
          /\ resp'.feed = resp.feed]_vars

AllHaveKey(posts_list, key) ==
    \A i \in 1..Len(posts_list) : key \in DOMAIN posts_list[i]

\* C30: every record returned by get_recent_posts and get_posts_by_domain
\* carries the field url_first_seen of its URL, so rank_posts computes the
\* URL age of every candidate without failing whenever storage holds at
\* least one candidate post.
C30_ProjectionsCarryUrlFirstSeen ==
    /\ AllHaveKey(get_recent_posts(Db, DefaultConfig.max_age_hours, 5000),
                  "url_first_seen")
    /\ rank_posts(Db, DefaultConfig, 5000, NoDomain).err = "none"
    /\ \A r \in urls :
          /\ AllHaveKey(get_posts_by_domain(Db, r.domain, 1000, 0),
                        "url_first_seen")
          /\ rank_posts(Db, DefaultConfig, 5000, r.domain).err = "none"

----------------------------------------------------------------------------
(* Configuration driver: the domain whitelist and the ranking             *)
(* configuration are reloaded from their files at run time, and hosts are  *)
(* tested against the whitelist.                                           *)

NyTimes == <<"nytimes", "com">>

\* hosts a domains.json file may list
FileHosts == {<<"NYTimes", "com">>, <<"mobile", "nytimes", "com">>,
              <<"fakenytimes", "com">>}

\* "fake" + h
Fake(h) ==
    <<CASE h[1] = "nytimes" -> "fakenytimes"
        [] h[1] = "mobile" -> "fakemobile"
        [] OTHER -> "fakefakenytimes">> \o Tail(h)

\* non-empty label prefixes x of a query x.h
LabelPrefixes == {<<"www">>, <<"WWW">>, <<"mobile">>, <<"www", "mobile">>}

\* the hosts is_allowed is asked about
Queries ==
    {x \o h : x \in LabelPrefixes, h \in {LowerHost(f) : f \in FileHosts}}
      \cup {Fake(LowerHost(f)) : f \in FileHosts}
      \cup FileHosts \cup {<<>>}

\* a domains.json file: absent, not JSON, JSON that is not an object, or an
\* object whose keys may be absent and whose domains may hold a non-string
DomainsFile(kind, has_domains, hosts, bad_item, has_ms, ms) ==
    [kind |-> kind, has_domains |-> has_domains, domains |-> hosts,
     bad_item |-> bad_item, has_ms |-> has_ms, match_subdomains |-> ms]

DomainsFiles ==
    {DomainsFile(k, FALSE, {}, FALSE, FALSE, TRUE) :
        k \in {"missing", "invalid", "notdict"}}
      \cup {DomainsFile("json", TRUE, hs, FALSE, TRUE, ms) :
              hs \in SUBSET FileHosts, ms \in BOOLEAN}
      \cup {DomainsFile("json", FALSE, {}, FALSE, FALSE, TRUE),
            DomainsFile("json", TRUE, {NyTimes}, TRUE, TRUE, FALSE)}

\* DomainFilter._load_config: the (domains, match_subdomains) pair after the
\* call.  Every failure happens before the first assignment.
load_config(flt, file) ==
    IF file.kind = "missing" THEN flt
    ELSE IF file.kind = "invalid" THEN flt
    ELSE IF file.kind = "notdict" THEN flt
    ELSE IF file.has_domains /\ file.bad_item THEN flt
    ELSE [domains |-> {LowerHost(d) : d \in file.domains},
          match_subdomains |-> IF file.has_ms THEN file.match_subdomains
                               ELSE TRUE]

\* a ranking.json file
RankingFile(kind, has_limit, limit, has_max, max) ==
    [kind |-> kind, has_limit |-> has_limit, results_limit |-> limit,
     has_max |-> has_max, max_posts_per_url |-> max]

RankingFiles ==
    {RankingFile(k, FALSE, 0, FALSE, 0) : k \in {"missing", "invalid"}}
      \cup {RankingFile("json", hl, IF hl THEN 10 ELSE 0, hm, IF hm THEN 1 ELSE 0) :
              hl \in BOOLEAN, hm \in BOOLEAN}

\* RankingConfig.from_file
from_file(file) ==
    IF file.kind = "missing" THEN [err |-> "ok", config |-> DefaultConfig]
    ELSE IF file.kind = "invalid"
    THEN [err |-> "JSONDecodeError", config |-> DefaultConfig]
    ELSE [err |-> "ok",
          config |-> [max_age_hours |-> 1, min_share_count |-> 1,
                      min_repost_count |-> 0,
                      results_limit |-> IF file.has_limit
                                        THEN file.results_limit ELSE 50,
                      max_posts_per_url |-> IF file.has_max
                                            THEN file.max_posts_per_url
                                            ELSE 2]]

\* RankingEngine.reload_config: self.config = RankingConfig.from_file(path)
engine_reload_config(cfg, file) ==
    LET r == from_file(file)
    IN IF r.err = "ok" THEN [err |-> "ok", config |-> r.config]
       ELSE [err |-> r.err, config |-> cfg]

CfgFrame == UNCHANGED <<dbvars, db_closed, running, post_batch, batch_lock,
                        flush_task, flush_local, posts_with_whitelisted_links,
                        pc, msg, url_record, add_ret, start_pc, start_local,
                        stop_pc, stop_local, cleanup_pc, handed, call, ret,
                        sightings, msgvars, batchvars, sess, reposted,
                        maintvars, feedvars, norm, http, ranking_engine>>

\* DomainFilter.reload_config()
FilterReload(file) ==
    /\ ncalls < MaxCalls
    /\ \E r \in {load_config([domains |-> domains,
                             match_subdomains |-> match_subdomains], file)} :
          /\ domains' = r.domains
          /\ match_subdomains' = r.match_subdomains
    /\ load' = [target |-> "filter", kind |-> file.kind, err |-> "none",
                domains |-> domains, match_subdomains |-> match_subdomains,
                config |-> config]
    /\ asked' = NoAsk
    /\ ncalls' = ncalls + 1
    /\ UNCHANGED config
    /\ CfgFrame

\* RankingEngine.reload_config(path)
EngineReload(file) ==
    /\ ncalls < MaxCalls
    /\ \E r \in {engine_reload_config(config, file)} :
          /\ config' = r.config
          /\ load' = [target |-> "engine", kind |-> file.kind, err |-> r.err,
                      domains |-> domains,
                      match_subdomains |-> match_subdomains,
                      config |-> config]
    /\ ncalls' = ncalls + 1
    /\ UNCHANGED <<domains, match_subdomains, asked>>
    /\ CfgFrame

\* DomainFilter.is_allowed(domain)
FilterAsk(domain) ==
    /\ ncalls < MaxCalls
    /\ asked' = [called |-> TRUE, domain |-> domain,
                 ret |-> is_allowed(domains, match_subdomains, domain)]
    /\ ncalls' = ncalls + 1
    /\ UNCHANGED <<domains, match_subdomains, config, load>>
    /\ CfgFrame

NextCfg ==
    \/ \E file \in DomainsFiles : FilterReload(file)
    \/ \E file \in RankingFiles : EngineReload(file)
    \/ \E domain \in Queries : FilterAsk(domain)

SpecCfg == Init /\ [][NextCfg]_vars

\* the asked host is x.h for a whitelisted h and a non-empty prefix x
AskedSubdomain ==
    /\ asked.called
    /\ \E h \in domains, x \in LabelPrefixes : asked.domain = x \o h

\* the asked host is "fake" + h for a whitelisted h
AskedFake ==
    /\ asked.called
    /\ \E h \in domains : asked.domain = Fake(h)

\* the asked host, lower-cased and without one leading "www.", is itself
\* whitelisted
AskedListed == StripWww(LowerHost(asked.domain)) \in domains

\* C31 as stated: for every whitelisted host h and non-empty label prefix
\* x, is_allowed(x.h) is true if and only if match_subdomains is enabled,
\* and "fake" + h is never allowed.
C31_SubdomainIffEnabled ==
    /\ AskedSubdomain => (asked.ret <=> match_subdomains)
    /\ AskedFake => ~asked.ret

\* C31 amended: for every whitelisted host h and non-empty label prefix x
\* such that x.h, lower-cased and without one leading "www.", is not itself
\* whitelisted, is_allowed(x.h) is true if and only if match_subdomains is
\* enabled (with x = "www" the query is h itself and is allowed whatever
\* match_subdomains is); "fake" + h is allowed only when it is itself
\* whitelisted or, match_subdomains being enabled, is y.d for a whitelisted
\* host d and a non-empty y.
C31_SubdomainIffEnabledUnlessListed ==
    /\ (AskedSubdomain /\ ~AskedListed) => (asked.ret <=> match_subdomains)
    /\ (AskedSubdomain /\ AskedListed) => asked.ret
    /\ (AskedFake /\ asked.ret) =>
          \/ AskedListed
          \/ /\ match_subdomains
             /\ \E d \in domains, k \in 1..Len(asked.domain) :
                   asked.domain = SubSeq(asked.domain, 1, k) \o d

C31_Witness ==
    /\ AskedSubdomain /\ ~AskedListed
    /\ asked.ret
    /\ asked.domain = <<"www", "mobile", "nytimes", "com">>
    /\ Cardinality(domains) = 2

\* C37: a runtime reload whose configuration file is missing or invalid
\* leaves the previous configuration in effect: DomainFilter.reload_config
\* keeps the previous domain set and match_subdomains, and
\* RankingEngine.reload_config keeps the previous RankingConfig.
C37_FailedReloadKeepsConfig ==
    /\ (load.target = "filter" /\ load.kind \in {"missing", "invalid"}) =>
          /\ domains = load.domains
          /\ match_subdomains = load.match_subdomains
    /\ (load.target = "engine" /\ load.kind \in {"missing", "invalid"}) =>
          config = load.config

----------------------------------------------------------------------------
(* normalize_url applied to its own result *)

\* the URL strings normalize_url is given
NormUrls ==
    {Url(scheme, netloc, query) :
        scheme \in {"http", "https", "ftp", ""},
        netloc \in {<<>>, <<"nytimes", "com">>, <<"www", "nytimes", "com">>,
                    <<"WWW", "NYTimes", "com">>,
                    <<"www", "www", "nytimes", "com">>,
                    <<"mobile", "nytimes", "com">>},
        query \in SUBSET {"utm_source", "ref", "id"}}

\* n = extractor.normalize_url(url); extractor.normalize_url(n)
NormCall(url) ==
    /\ \E n \in {normalize_url(url)} :
          norm' = [called |-> TRUE, url |-> url, once |-> n,
                   twice |-> normalize_url(n)]
    /\ UNCHANGED <<dbvars, pipevars, ncalls, call, ret, sightings, msgvars,
                   batchvars, sess, reposted, maintvars, feedvars, config,
                   load, asked, http, ranking_engine>>

NextNorm == \E url \in NormUrls : NormCall(url)

SpecNorm == Init /\ [][NextNorm]_vars

\* C32: normalize_url is idempotent: for every URL u that normalize_url
\* accepts, normalize_url(normalize_url(u)) equals normalize_url(u).
C32_NormalizeIdempotent ==
    (norm.called /\ norm.once # NoneUrl) => norm.twice = norm.once

----------------------------------------------------------------------------
(* Feed server: GET /xrpc/app.bsky.feed.getFeedSkeleton *)

FEED_NAME == "trending-news"

\* feed.endswith("/" + "/".join(suffix)), the feed parameter being the
\* sequence of the pieces between its slashes
EndsWithSlash(feed, suffix) ==
    /\ Len(feed) > Len(suffix)
    /\ SubSeq(feed, Len(feed) - Len(suffix) + 1, Len(feed)) = suffix

\* the handler of getFeedSkeleton: the HTTP status of its answer
server_get_feed_skeleton(engine, db, cfg, feed, limit, cursor) ==
    IF ~EndsWithSlash(feed, <<"app.bsky.feed.generator", FEED_NAME>>)
    THEN 400
    ELSE IF engine = "None" THEN 503
    ELSE IF get_feed_skeleton(db, cfg, limit, cursor).err # "none" THEN 500
    ELSE 200

\* feed parameters: the feed of this server, a feed of another name, the
\* bare suffix without a slash before it, and the empty string
HttpFeeds ==
    {<<"at:", "", "did:plc:a", "app.bsky.feed.generator", "trending-news">>,
     <<"at:", "", "did:plc:a", "app.bsky.feed.generator", "other">>,
     <<"app.bsky.feed.generator", "trending-news">>,
     <<"">>}

\* posts of one URL, created now or before the ranking window
HttpItems == {item \in FeedItems : item.url = normalize_url(RawA)}

\* cursor arguments: none, strings that do not decode, and a cursor of an
\* earlier response
HttpCursors ==
    {NoCursor, CursorStr(FALSE, <<>>),
     CursorStr(TRUE, <<Token("chars", 0, NoUri)>>),
     encode_cursor(1000, UntrackedUri)}

\* lifespan(): the startup of the server sets the global ranking_engine
Lifespan ==
    /\ ranking_engine = "None"
    /\ ranking_engine' = "ready"
    /\ http' = NoHttp
    /\ UNCHANGED <<dbvars, pipevars, ncalls, call, ret, sightings, msgvars,
                   batchvars, sess, reposted, maintvars, feedvars, config,
                   load, asked, norm>>

\* a write to storage by the ingestion process: await db.add_post(**item)
HttpAddPost(item) ==
    /\ ncalls < MaxCalls
    /\ \E r \in {add_post(Db, item)} : SetDb(r.db)
    /\ http' = NoHttp
    /\ ncalls' = ncalls + 1
    /\ UNCHANGED <<pipevars, call, ret, sightings, msgvars, batchvars, sess,
                   reposted, maintvars, feedvars, config, load, asked, norm,
                   ranking_engine>>

\* GET getFeedSkeleton?feed=..&limit=..&cursor=..
HttpGet(feed, limit, cursor) ==
    /\ ncalls < MaxCalls
    /\ http' = [called |-> TRUE, feed |-> feed, cursor |-> cursor,
                limit |-> limit,
                status |-> server_get_feed_skeleton(ranking_engine, Db,
                               config, feed, limit, cursor)]
    /\ ncalls' = ncalls + 1
    /\ UNCHANGED <<dbvars, pipevars, call, ret, sightings, msgvars, batchvars,
                   sess, reposted, maintvars, feedvars, config, load, asked,
                   norm, ranking_engine>>

NextHttp ==
    \/ Lifespan
    \/ \E item \in HttpItems : HttpAddPost(item)
    \/ \E feed \in HttpFeeds, limit \in FeedLimits, cursor \in HttpCursors :
          HttpGet(feed, limit, cursor)

SpecHttp == Init /\ [][NextHttp]_vars

\* the feed parameter of the last request names the feed of this server
GoodFeed ==
    \E k \in 1..Len(http.feed) - 2 :
        /\ http.feed[k + 1] = "app.bsky.feed.generator"
        /\ http.feed[k + 2] = "trending-news"
        /\ k + 2 = Len(http.feed)

\* ranking the stored posts raises
EngineRaises == rank_posts(Db, config, 1, NoDomain).err # "none"

\* the cursor of the last request is a string that does not decode
InvalidCursor ==
    /\ http.cursor # NoCursor
    /\ decode_cursor(http.cursor).err # "none"

\* C33: getFeedSkeleton answers 400 when the feed parameter does not end
\* with /app.bsky.feed.generator/<feed-name>, otherwise 503 when the
\* ranking engine is not initialized, otherwise 500 when the ranking engine
\* raises, and an invalid cursor never causes an error status: it gets the
\* status of the same request without cursor, 200 when ranking does not
\* raise.
C33_ServerStatuses ==
    http.called =>
        /\ ~GoodFeed => http.status = 400
        /\ (GoodFeed /\ ranking_engine = "None") => http.status = 503
        /\ (GoodFeed /\ ranking_engine # "None" /\ EngineRaises) =>
              http.status = 500
        /\ (GoodFeed /\ ranking_engine # "None" /\ ~EngineRaises) =>
              http.status = 200
        /\ InvalidCursor =>
              http.status = server_get_feed_skeleton(ranking_engine, Db, config,
                                http.feed, http.limit, NoCursor)

C33_Witness ==
    /\ http.called /\ GoodFeed /\ InvalidCursor
    /\ ranking_engine = "ready"
    /\ posts # {}
    /\ http.status = 200

----------------------------------------------------------------------------
(* Stale cursors and the per-URL limit of the ranking *)

\* the cursor of the last get_feed_skeleton call, decoded
RespCursor == decode_cursor(resp.arg)

\* the (URI, score) pair of the cursor is the pair of no ranking post
StaleCursor ==
    /\ resp.called /\ Truthy(resp.arg) /\ RespCursor.err = "none"
    /\ \A i \in 1..Len(FullRanking.posts) :
          \/ FullRanking.posts[i].uri # RespCursor.uri
          \/ FullRanking.posts[i].score # RespCursor.score

\* the ranked posts below the cursor: a lower score, or the same score and
\* a greater URI
BelowCursor ==
    SelectSeq(FullRanking.posts,
        LAMBDA post :
            \/ post.score < RespCursor.score
            \/ /\ post.score = RespCursor.score
               /\ UriKey(post.uri) > UriKey(RespCursor.uri))

\* C34: when the (URI, score) pair of a decoded cursor matches no item of
\* the ranked list, get_feed_skeleton emits, in ranking order and truncated
\* to limit, exactly the items whose score is below cursor_score or whose
\* score equals cursor_score and whose URI is greater than cursor_uri.
C34_StaleCursorSkipsByScore ==
    StaleCursor =>
        /\ resp.err = "none"
        /\ FullRanking.err = "none"
        /\ resp.feed = UrisOf(Take(BelowCursor, resp.limit))

\* await engine.rank_posts(limit=None)
RankCall ==
    /\ ncalls < MaxCalls
    /\ \E r \in {rank_posts(Db, config, 0 - 1, NoDomain)} :
          ranking' = [called |-> TRUE, max |-> config.max_posts_per_url,
                     err |-> r.err,
                     posts |-> [i \in 1..Len(r.posts) |->
                                   [uri |-> r.posts[i].uri,
                                    url |-> r.posts[i].url,
                                    score |-> r.posts[i].score]]]
    /\ ncalls' = ncalls + 1
    /\ UNCHANGED <<dbvars, resp, walk>>
    /\ FeedFrame

\* RankingEngine.reload_config(path), after which no ranking is current
RankReload(file) ==
    /\ ncalls < MaxCalls
    /\ \E r \in {engine_reload_config(config, file)} : config' = r.config
    /\ ranking' = NoRanked
    /\ ncalls' = ncalls + 1
    /\ UNCHANGED <<dbvars, pipevars, call, ret, sightings, msgvars, batchvars,
                   sess, reposted, maintvars, resp, walk, load, asked, norm,
                   http, ranking_engine>>

NextRank ==
    \/ \E item \in FeedItems : FeedAddPost(item)
    \/ \E uri \in DrvUris : FeedRepost(uri)
    \/ \E file \in RankingFiles : RankReload(file)
    \/ RankCall

SpecRank == Init /\ [][NextRank]_vars

\* the stored posts that are candidates of the ranking
Candidates ==
    {p \in posts : UtcNow - p.created_at <= config.max_age_hours}

\* the ranking of the stored posts without the per-URL limit
Unlimited ==
    rank_posts(Db, [config EXCEPT !.max_posts_per_url = 0 - 1], 5000, NoDomain)

\* C35: when max_posts_per_url is set, the list returned by rank_posts
\* contains at most that many posts per URL, the posts kept for a URL are
\* its highest-ranking ones, and the kept posts appear in score-descending
\* order.
C35_AtMostMaxPostsPerUrl ==
    (ranking.called /\ ranking.max >= 0) =>
        /\ ranking.err = "none"
        /\ \A i \in 1..Len(ranking.posts) :
              Cardinality({j \in 1..Len(ranking.posts) :
                              ranking.posts[j].url = ranking.posts[i].url})
                <= ranking.max
        /\ \A i, j \in 1..Len(ranking.posts) :
              i < j => ranking.posts[i].score >= ranking.posts[j].score
        /\ (ranking.max > 0 /\ Candidates # {}) => ranking.posts # <<>>
        /\ \A i \in 1..Len(ranking.posts), k \in 1..Len(Unlimited.posts) :
              (/\ Unlimited.posts[k].url = ranking.posts[i].url
               /\ \A j \in 1..Len(ranking.posts) :
                     ranking.posts[j].uri # Unlimited.posts[k].uri)
                => Unlimited.posts[k].score <= ranking.posts[i].score

----------------------------------------------------------------------------
(* Repost counts and referential integrity over the maintenance driver *)

\* C36: for every Post identity, the repost_count observed through Storage
\* never decreases over any sequence of add_post, add_posts_batch,
\* increment_repost_count, delete_posts_in_period and later sightings of
\* the same URI.
C36_RepostCountNeverDecreases ==
    [][\A u \in MaintUris :
          (\E p \in posts' : p.uri = u) =>
              (CHOOSE p \in posts' : p.uri = u).repost_count >= observed[u]]_vars

\* C39: in every reachable storage state, every Link refers to a stored
\* Post and to a stored URL.
C39_LinksReferToStoredRows ==
    \A l \in post_urls :
        /\ \E p \in posts : p.uri = l.post_uri
        /\ \E r \in urls : r.id = l.url_id

\* a cleanup deleted a URL while a Post and its Link remain
C39_Witness ==
    /\ op.kind = "cleanup_orphaned_urls" /\ op.n > 0
    /\ post_urls # {}
    /\ Cardinality(posts) = 1

----------------------------------------------------------------------------
(* cleanup_orphaned_urls running in its own session while add_post calls   *)
(* run in theirs: the ingestion process and the cleanup command share the  *)
(* database file.                                                          *)

\* cleanup_orphaned_urls up to the results of its two SELECTs
SweepRead ==
    /\ sweep.pc = "idle"
    /\ sweep' = [pc |-> "read", ids |-> orphaned_ids(Db), n |-> 0]
    /\ UNCHANGED <<pipevars, dbvars, ncalls, call, ret, sightings, msgvars,
                   batchvars, sess, reposted, reposts_tracked, op, observed,
                   feedvars, cfgvars>>

\* the rest of cleanup_orphaned_urls: the DELETE of the ids computed from
\* what was read, and the commit
SweepDelete ==
    /\ sweep.pc = "read"
    /\ \E r \in {IF sweep.ids # {} THEN delete_urls(Db, sweep.ids)
                 ELSE [db |-> Db, n |-> 0]} :
          /\ SetDb(r.db)
          /\ sweep' = [sweep EXCEPT !.pc = "done", !.n = r.n]
    /\ UNCHANGED <<pipevars, ncalls, call, ret, sightings, msgvars, batchvars,
                   sess, reposted, reposts_tracked, op, observed, feedvars,
                   cfgvars>>

\* the cleanup command returned; it may be run again
SweepReturn ==
    /\ sweep.pc = "done"
    /\ sweep' = NoSweep
    /\ UNCHANGED <<pipevars, dbvars, ncalls, call, ret, sightings, msgvars,
                   batchvars, sess, reposted, reposts_tracked, op, observed,
                   feedvars, cfgvars>>

NextSweep ==
    \/ \E s \in Sessions, url \in DrvUrls : AddPostSelect(s, url)
    \/ \E s \in Sessions : AddPostWrite(s)
    \/ \E start_date \in {1} : MaintDeletePeriod(start_date, NoneTime)
    \/ SweepRead
    \/ SweepDelete
    \/ SweepReturn

SpecSweep == Init /\ [][NextSweep]_vars

\* C38: cleanup_orphaned_urls never deletes a URL that has a Link at the
\* moment of the delete, even when an add_post for that URL commits
\* between cleanup's reads and its delete statement; no stored Post loses
\* its Link through cleanup.
C38_CleanupKeepsLinkedUrls ==
    [][(sweep.pc = "read" /\ sweep'.pc = "done") =>
          /\ \A r \in urls \ urls' : LinksOf(r.id) = {}
          /\ \A p \in posts : LinksOfPost(p.uri) \subseteq post_urls']_vars

----------------------------------------------------------------------------
(* Cancellation of the periodic flush task *)

\* C40: cancelling the periodic flush task at shutdown never loses items:
\* every item that a periodic flush has removed from the queue is passed to
\* an add_posts_batch call that runs to completion, so the only step that
\* ends the task's call and takes the batch from it is the return (or the
\* logged failure) of that add_posts_batch call.
C40_CancelledFlushLosesNothing ==
    [][(flush_task = "call" /\ flush_task' # "call") => FlushCall]_vars

====
